---- MODULE Spec2Model ----
(***************************************************************************)
(* Verification model of the acquisition pipeline of merukari0.10:        *)
(*   - core/error_handler.py : MercariErrorHandler and retry_on_error      *)
(*   - core/utils.py         : extract_price / format_currency             *)
(*   - modules/next_scraper.py, modules/scraper.py, modules/research.py    *)
(*                           : the extraction resolvers                    *)
(* Each component has its own specification (SpecHandler, SpecRetry,       *)
(* SpecCancel, ...); the variables of the other components stay at their   *)
(* initial value.                                                          *)
(***************************************************************************)
EXTENDS Integers, Sequences, FiniteSets, TLC

(***************************************************************************)
(* Bounds of the model                                                     *)
(***************************************************************************)
\* largest RetryConfig.max_retries explored
MaxRetries == 3
\* largest number of direct classify_error / handle_error calls explored
MaxErrors == 3
\* prices 0..MaxSmallPrice are rendered and parsed
MaxSmallPrice == 12
\* prices within PriceDelta of each end of the accepted range are too
PriceDelta == 2
\* longest entry list of a structured payload
MaxItems == 2
\* longest list of elements a selector matches, and of hyperlinks of a page
MaxElems == 2
\* most calls of _filter_new_items on one database, longest list it is given
\* and most restarts of the program on that database
MaxFilterCalls == 3
MaxBatch == 2
MaxRuns == 2
\* hexadecimal digits of a fingerprint (imagehash.phash gives 16) and the
\* longest list filter_items is given
HashDigits == 5
MaxImages == 3
\* most keywords of a run and most records one fetch of a run yields
MaxKeywords == 3
MaxFetched == 1
\* most passes of the monitor over one ImageFilter and most items a fetch
\* extracts in a pass
MaxPasses == 2
MaxPassItems == 2
\* longest side of an image whose border is sampled, in steps of the
\* sampling
MaxEdgeSteps == 3
\* largest max_pages and max_products_per_search of the configuration, and
\* most products one page holds
MaxPages == 2
MaxProducts == 2
MaxFound == 2

(***************************************************************************)
(* Python values shared by the components                                  *)
(***************************************************************************)
\* Python's None
None == "None"

\* dict.get(key, default) on a record modelling a dict
Get(d, key, default) == IF key \in DOMAIN d THEN d[key] ELSE default

Min(a, b) == IF a <= b THEN a ELSE b

RECURSIVE Pow(_, _)
Pow(b, n) == IF n = 0 THEN 1 ELSE b * Pow(b, n - 1)

(***************************************************************************)
(* core/error_handler.py : exception types                                 *)
(***************************************************************************)
\* exception types the classification table names
MappedKinds ==
  {"TimeoutException", "StaleElementReferenceException",
   "ElementNotInteractableException", "ElementClickInterceptedException",
   "NoSuchElementException", "WebDriverException",
   "ConnectionError", "MemoryError", "SystemError", "KeyboardInterrupt"}

\* an exception type the table does not name
UnmappedKinds == {"ValueError"}

Kinds == MappedKinds \cup UnmappedKinds

\* types caught by `except Exception`: KeyboardInterrupt derives from
\* BaseException only
IsException(k) == k # "KeyboardInterrupt"

Severities == {"low", "medium", "high", "critical"}

\* RetryConfig defaults, in seconds
base_delay == 1
max_delay == 60
backoff_multiplier == 2

\* random.uniform(0.8, 1.2), in tenths
JitterLo == 8
JitterHi == 12

(***************************************************************************)
(* MercariErrorHandler                                                     *)
(***************************************************************************)
\* a classification table with MemoryError entered one tier too high
error_classification_memory_critical ==
  << [severity |-> "low",
      types |-> {"TimeoutException", "StaleElementReferenceException",
                 "ElementNotInteractableException",
                 "ElementClickInterceptedException"}],
     [severity |-> "medium",
      types |-> {"NoSuchElementException", "WebDriverException"}],
     [severity |-> "high",
      types |-> {"ConnectionError"}],
     [severity |-> "critical",
      types |-> {"MemoryError", "SystemError", "KeyboardInterrupt"}] >>

\* self.error_classification, in dict insertion order
error_classification ==
  << [severity |-> "low",
      types |-> {"TimeoutException", "StaleElementReferenceException",
                 "ElementNotInteractableException",
                 "ElementClickInterceptedException"}],
     [severity |-> "medium",
      types |-> {"NoSuchElementException", "WebDriverException"}],
     [severity |-> "high",
      types |-> {"ConnectionError", "MemoryError"}],
     [severity |-> "critical",
      types |-> {"SystemError", "KeyboardInterrupt"}] >>

\* classify_error with a table that lacks the fallback for unknown types
classify_error_nofallback(k) ==
  LET hits == {i \in DOMAIN error_classification :
                 k \in error_classification[i].types}
  IN  IF hits = {} THEN None
      ELSE error_classification[CHOOSE i \in hits : \A j \in hits : i <= j].severity

\* classify_error(error): first severity whose table holds the exact type,
\* medium when none does
classify_error(k) ==
  LET hits == {i \in DOMAIN error_classification :
                 k \in error_classification[i].types}
  IN  IF hits = {} THEN "medium"
      ELSE error_classification[CHOOSE i \in hits : \A j \in hits : i <= j].severity

\* keys of self.recovery_strategies
recovery_strategies ==
  {"TimeoutException", "NoSuchElementException",
   "StaleElementReferenceException", "ElementNotInteractableException",
   "ElementClickInterceptedException", "WebDriverException"}

\* a recovery result; wait_time is the interval random.uniform draws from
Outcome(ok, retry, lo, hi) ==
  [attempted |-> TRUE, successful |-> ok, retry_recommended |-> retry,
   wait_time |-> <<lo, hi>>]

\* context handed to handle_error: which of 'driver' / 'element' it holds
Contexts == [driver : BOOLEAN, element : BOOLEAN]

\* the context retry_on_error builds: function_name, attempt, max_attempts,
\* args, kwargs; neither 'driver' nor 'element'
WrapperContext == [driver |-> FALSE, element |-> FALSE]

\* _handle_timeout_error; driverOk: driver.refresh() did not raise
handle_timeout_error(ctx, driverOk) ==
  IF ctx.driver /\ driverOk THEN Outcome(TRUE, TRUE, 2, 5)
  ELSE Outcome(FALSE, TRUE, 5, 10)

\* _handle_element_not_found
handle_element_not_found(ctx, driverOk) ==
  IF ctx.driver /\ driverOk THEN Outcome(TRUE, TRUE, 1, 3)
  ELSE Outcome(FALSE, TRUE, 3, 6)

\* _handle_stale_element
handle_stale_element(ctx, driverOk) == Outcome(TRUE, TRUE, 1, 2)

\* _handle_element_not_interactable
handle_element_not_interactable(ctx, driverOk) ==
  IF ctx.driver /\ ctx.element /\ driverOk THEN Outcome(TRUE, FALSE, 0, 0)
  ELSE Outcome(FALSE, TRUE, 2, 4)

\* _handle_click_intercepted; `By` is not imported in error_handler.py, so
\* with a driver the lookup raises NameError inside the try and the
\* handler falls through to its second result
handle_click_intercepted(ctx, driverOk) == Outcome(FALSE, TRUE, 2, 5)

\* _handle_webdriver_error
handle_webdriver_error(ctx, driverOk) ==
  [attempted |-> TRUE, successful |-> FALSE, retry_recommended |-> FALSE,
   restart_driver_recommended |-> TRUE, wait_time |-> <<5, 10>>]

\* _default_recovery_strategy
default_recovery_strategy(k) ==
  IF classify_error(k) \in {"low", "medium"}
  THEN Outcome(FALSE, TRUE, 3, 8)
  ELSE Outcome(FALSE, FALSE, 0, 0)

\* a strategy that raised passes for one that recommends the retry
execute_recovery_strategy_retrying(k, ctx, driverOk, throws) ==
  IF k \in recovery_strategies
  THEN IF throws
       THEN [attempted |-> TRUE, successful |-> FALSE,
             retry_recommended |-> TRUE]
       ELSE CASE k = "TimeoutException" -> handle_timeout_error(ctx, driverOk)
              [] k = "NoSuchElementException" -> handle_element_not_found(ctx, driverOk)
              [] k = "StaleElementReferenceException" -> handle_stale_element(ctx, driverOk)
              [] k = "ElementNotInteractableException" -> handle_element_not_interactable(ctx, driverOk)
              [] k = "ElementClickInterceptedException" -> handle_click_intercepted(ctx, driverOk)
              [] OTHER -> handle_webdriver_error(ctx, driverOk)
  ELSE default_recovery_strategy(k)

\* _execute_recovery_strategy; throws: the registered strategy raised
execute_recovery_strategy(k, ctx, driverOk, throws) ==
  IF k \in recovery_strategies
  THEN IF throws
       THEN [attempted |-> TRUE, successful |-> FALSE,
             retry_recommended |-> FALSE]
       ELSE CASE k = "TimeoutException" -> handle_timeout_error(ctx, driverOk)
              [] k = "NoSuchElementException" -> handle_element_not_found(ctx, driverOk)
              [] k = "StaleElementReferenceException" -> handle_stale_element(ctx, driverOk)
              [] k = "ElementNotInteractableException" -> handle_element_not_interactable(ctx, driverOk)
              [] k = "ElementClickInterceptedException" -> handle_click_intercepted(ctx, driverOk)
              [] OTHER -> handle_webdriver_error(ctx, driverOk)
  ELSE default_recovery_strategy(k)

\* the dict handle_error returns (message and context left out)
handle_error_result(k, ctx, driverOk, throws) ==
  LET r == execute_recovery_strategy(k, ctx, driverOk, throws)
  IN  [error_type |-> k,
       severity |-> classify_error(k),
       recovery_attempted |-> Get(r, "attempted", FALSE),
       recovery_successful |-> Get(r, "successful", FALSE),
       retry_recommended |-> Get(r, "retry_recommended", FALSE),
       wait_time |-> Get(r, "wait_time", <<0, 0>>)]

\* _update_error_stats
update_error_stats(stats, k) == [stats EXCEPT ![k] = @ + 1]

(***************************************************************************)
(* core/utils.py : extract_price and the renderings of a price             *)
(***************************************************************************)
\* a text is a sequence of characters; YEN is the half-width and FWYEN the
\* full-width yen sign, EN the suffix character of r'円'
YEN == "yen"
FWYEN == "fwyen"
EN == "en"
COMMA == ","
SPACE == " "

DigitChars == <<"0", "1", "2", "3", "4", "5", "6", "7", "8", "9">>

IsDigit(c) == \E i \in 1..10 : DigitChars[i] = c

DigitValue(c) == (CHOOSE i \in 1..10 : DigitChars[i] = c) - 1

\* the character class [0-9,]
IsNumChar(c) == IsDigit(c) \/ c = COMMA

\* the character class [￥¥円]
IsCurrencyChar(c) == c \in {YEN, FWYEN, EN}

\* the lower and upper end of the accepted price range
MIN_PRICE == 10
MAX_PRICE == 1000000

\* Python's None as the result of extract_price
NoPrice == -1

\* str(n) for n >= 0
RECURSIVE ToDigits(_)
ToDigits(n) ==
  IF n < 10 THEN <<DigitChars[n + 1]>>
  ELSE Append(ToDigits(n \div 10), DigitChars[(n % 10) + 1])

\* f"{n:,}": a comma before every group of three digits
RECURSIVE Grouped(_)
Grouped(ds) ==
  IF Len(ds) <= 3 THEN ds
  ELSE Grouped(SubSeq(ds, 1, Len(ds) - 3)) \o <<COMMA>>
         \o SubSeq(ds, Len(ds) - 2, Len(ds))

Styles == {"symbol", "symbol_sep", "fwsymbol_sep", "suffix", "suffix_sep",
           "bare", "bare_sep"}

\* the supported renderings of a price; "symbol_sep" and "bare_sep" are
\* format_currency(amount, "JPY") and format_currency(amount, other)
Render(p, style) ==
  CASE style = "symbol"       -> <<YEN>> \o ToDigits(p)
    [] style = "symbol_sep"   -> <<YEN>> \o Grouped(ToDigits(p))
    [] style = "fwsymbol_sep" -> <<FWYEN>> \o Grouped(ToDigits(p))
    [] style = "suffix"       -> ToDigits(p) \o <<EN>>
    [] style = "suffix_sep"   -> Grouped(ToDigits(p)) \o <<EN>>
    [] style = "bare"         -> ToDigits(p)
    [] OTHER                  -> Grouped(ToDigits(p))

\* end of the maximal run of [0-9,] that starts at position i
RECURSIVE RunEnd(_, _)
RunEnd(text, i) ==
  IF i < Len(text) /\ IsNumChar(text[i + 1]) THEN RunEnd(text, i + 1) ELSE i

\* starts of the maximal runs of [0-9,] in the text
RunStarts(text) ==
  {i \in 1..Len(text) :
     IsNumChar(text[i]) /\ (i = 1 \/ ~IsNumChar(text[i - 1]))}

\* first position after i that holds no whitespace
RECURSIVE SkipSpace(_, _)
SkipSpace(text, i) ==
  IF i <= Len(text) /\ text[i] = SPACE THEN SkipSpace(text, i + 1) ELSE i

\* whether the run starting at i is followed by \s*[￥¥円]
FollowedByCurrency(text, i) ==
  LET j == SkipSpace(text, RunEnd(text, i) + 1)
  IN  j <= Len(text) /\ IsCurrencyChar(text[j])

\* re.search(pattern, text).group(1) for the three patterns, <<>> when the
\* pattern does not match.  Patterns 1 and 3 capture the first maximal run
\* of [0-9,]; pattern 2 the first run followed by \s*[￥¥円].
Group1(n, text) ==
  LET starts == IF n = 2
                THEN {i \in RunStarts(text) : FollowedByCurrency(text, i)}
                ELSE RunStarts(text)
  IN  IF starts = {} THEN <<>>
      ELSE LET i == CHOOSE x \in starts : \A y \in starts : x <= y
           IN  SubSeq(text, i, RunEnd(text, i))

\* s.replace(',', '')
RECURSIVE StripCommas(_)
StripCommas(s) ==
  IF s = <<>> THEN <<>>
  ELSE IF Head(s) = COMMA THEN StripCommas(Tail(s))
       ELSE <<Head(s)>> \o StripCommas(Tail(s))

\* int(s) for a non-empty string of digits
RECURSIVE ToInt(_)
ToInt(ds) ==
  IF Len(ds) = 1 THEN DigitValue(ds[1])
  ELSE 10 * ToInt(SubSeq(ds, 1, Len(ds) - 1)) + DigitValue(ds[Len(ds)])

\* a range check that clamps instead of rejecting
accept_price_clamped(price) ==
  IF price < MIN_PRICE THEN MIN_PRICE
  ELSE IF price > MAX_PRICE THEN MAX_PRICE ELSE price

\* `if 10 <= price <= 1000000: return price`, NoPrice when it is not taken
accept_price(price) ==
  IF MIN_PRICE <= price /\ price <= MAX_PRICE THEN price ELSE NoPrice

\* the body of the loop for one pattern: the price it returns, NoPrice when
\* it matches nothing, int() raises ValueError or the range check fails
parse_run(run) ==
  LET ds == StripCommas(run)
  IN  IF ds = <<>> THEN NoPrice ELSE accept_price(ToInt(ds))

\* extract_price(text)
extract_price(text) ==
  IF text = <<>> THEN NoPrice
  ELSE LET r1 == parse_run(Group1(1, text))
           r2 == parse_run(Group1(2, text))
           r3 == parse_run(Group1(3, text))
       IN  IF r1 # NoPrice THEN r1
           ELSE IF r2 # NoPrice THEN r2
           ELSE r3

(***************************************************************************)
(* modules/next_scraper.py : the structured payload (__NEXT_DATA__)         *)
(***************************************************************************)
\* a JSON object is a record whose domain is the set of keys it holds
\* a price given as a number, as {"value": number}, as null
IntPrice(n) == [t |-> "int", v |-> n]
DictPrice(n) == [t |-> "dict", v |-> n]
NullPrice == [t |-> "null", v |-> 0]

\* Python truthiness of a string or None
Falsy(x) == x \in {None, ""}

\* a or b or c
Or3(a, b, c) == IF ~Falsy(a) THEN a ELSE IF ~Falsy(b) THEN b ELSE c

\* entries of a payload
I_valid == [id |-> "m1", name |-> "Lens", price |-> IntPrice(1500),
            thumbnailUrl |-> "t1"]
I_alias == [itemId |-> "m2", title |-> "Bag", price |-> DictPrice(2000),
            thumbnails |-> <<"t2">>]
I_notitle == [id |-> "m3", price |-> IntPrice(1500), thumbnailUrl |-> "t3"]
I_noid == [name |-> "Cup", price |-> IntPrice(300)]
I_cheap == [id |-> "m4", name |-> "Pin", price |-> IntPrice(5)]
I_noprice == [id |-> "m5", name |-> "Pen", thumbnail |-> "t5"]
I_nullprice == [id |-> "m6", name |-> "Hat", price |-> NullPrice]
I_nothumbs == [id |-> "m7", name |-> "Cap", price |-> IntPrice(800),
               thumbnails |-> <<>>]
\* entries found under the second and the third shape
I_second == [id |-> "p1", name |-> "Desk", price |-> IntPrice(4000)]
I_third == [id |-> "e1", name |-> "Lamp", price |-> IntPrice(900)]

SampleItems == {I_valid, I_alias, I_notitle, I_noid, I_cheap, I_noprice,
                I_nullprice, I_nothumbs}

\* item.get('thumbnails', [None])[0] raises IndexError on an empty list; it
\* is evaluated only when thumbnailUrl and thumbnail are both falsy
thumb_raises(item) ==
  /\ Falsy(Get(item, "thumbnailUrl", None))
  /\ Falsy(Get(item, "thumbnail", None))
  /\ "thumbnails" \in DOMAIN item
  /\ item.thumbnails = <<>>

\* int(price) raises TypeError on None
price_raises(item) == "price" \in DOMAIN item /\ item.price.t = "null"

\* a record emitted by a resolver, in the fields the resolvers share
Product(id, title, price, url) ==
  [id |-> id, title |-> title, price |-> price, url |-> url]

\* the result of a step that may raise
Raised == [raised |-> TRUE]
Returned(v) == [raised |-> FALSE, value |-> v]

\* _format_item(item)
format_item(item) ==
  IF thumb_raises(item) \/ price_raises(item) THEN Raised
  ELSE LET item_id == Or3(Get(item, "id", None), Get(item, "itemId", None),
                          Get(item, "productId", ""))
           title == Or3(Get(item, "name", None), Get(item, "title", None),
                        Get(item, "itemName", ""))
           price == IF "price" \in DOMAIN item THEN item.price.v ELSE 0
       IN  Returned(Product(item_id, title, price,
                            <<"https://jp.mercari.com/item/", item_id>>))

\* `for item in item_list: items.append(self._format_item(item))`: the list
\* built so far and whether the loop was left by an exception
RECURSIVE format_all(_, _)
\* r is what _format_item gave for the head of item_list
format_next(r, items, item_list) ==
  IF r.raised THEN [items |-> items, raised |-> TRUE]
  ELSE format_all(Append(items, r.value), Tail(item_list))

format_all(items, item_list) ==
  IF item_list = <<>> THEN [items |-> items, raised |-> FALSE]
  ELSE format_next(format_item(Head(item_list)), items, item_list)

\* _parse_items(data); data holds the entry lists found under the three
\* paths (empty when the path is absent).  An exception inside a pattern is
\* swallowed by its bare except and the next pattern goes on with the
\* `items` built so far.
\* pattern 3 (props.pageProps.initialState.entities.items) on the items
\* built so far
pattern3(data, items) == format_all(items, data.shape3).items

\* pattern 2 (props.pageProps.items); p2 is what its loop gave
pattern2(data, items, p2) ==
  IF data.shape2 # <<>> /\ ~p2.raised THEN p2.items
  ELSE pattern3(data, IF data.shape2 # <<>> THEN p2.items ELSE items)

\* the items pattern 1 leaves behind when it does not return
after_pattern1(data, items) ==
  pattern2(data, items, format_all(items, data.shape2))

\* pattern 1 (props.pageProps.initialState.searchResult.itemGrid.items); p1
\* is what its loop gave
pattern1(data, p1) ==
  IF data.shape1 # <<>> /\ ~p1.raised THEN p1.items
  ELSE after_pattern1(data, IF data.shape1 # <<>> THEN p1.items ELSE <<>>)

parse_items(data) == pattern1(data, format_all(<<>>, data.shape1))

\* the script tag of a page: absent, not JSON, or a payload
NoScript == [kind |-> "no_script"]
BadJson == [kind |-> "bad_json"]
Payload(s1, s2, s3) ==
  [kind |-> "json", shape1 |-> s1, shape2 |-> s2, shape3 |-> s3]

\* _extract_next_data(html)
extract_next_data(script) ==
  IF script.kind = "json" THEN parse_items(script) ELSE <<>>

\* _filter_new_items(items): the new items and the seen_items table after
RECURSIVE filter_new_items(_, _)
RECURSIVE filter_new_items_committed_only(_, _)
\* new_items.append(item) before the rest of the loop
keep_new(item, rest) ==
  [new_items |-> <<item>> \o rest.new_items, seen |-> rest.seen]

\* a filter whose SELECT sees only the rows committed before the call
filter_new_items_committed_only(items, seen) ==
  IF items = <<>> THEN [new_items |-> <<>>, seen |-> seen]
  ELSE IF Head(items).id \in seen
       THEN filter_new_items_committed_only(Tail(items), seen)
  ELSE keep_new(Head(items),
                filter_new_items_committed_only(Tail(items), seen))

filter_new_items(items, seen) ==
  IF items = <<>> THEN [new_items |-> <<>>, seen |-> seen]
  ELSE IF Head(items).id \in seen THEN filter_new_items(Tail(items), seen)
  ELSE keep_new(Head(items),
                filter_new_items(Tail(items), seen \cup {Head(items).id}))

\* the first_seen column after the INSERTs of one call: a row (id, now) for
\* each of new_items; the PRIMARY KEY admits one row for an id
RECURSIVE record_first_seen(_, _, _)
record_first_seen(table, new_items, now) ==
  IF new_items = <<>> THEN table
  ELSE record_first_seen(
         IF Head(new_items).id \in DOMAIN table THEN table
         ELSE table @@ (Head(new_items).id :> now),
         Tail(new_items), now)

\* lst[:n]
Take(lst, n) == SubSeq(lst, 1, Min(n, Len(lst)))

\* fetch_items(keyword, conditions, max_items); fetchOk: session.get and
\* raise_for_status did not raise
\* `return new_items[:max_items]`
return_new(f, limit) ==
  [result |-> Returned(Take(f.new_items, limit)), seen |-> f.seen]

\* `if items:` ... `else:` ... `return []`
fetched(items, seen, limit) ==
  IF items # <<>> THEN return_new(filter_new_items(items, seen), limit)
  ELSE [result |-> Returned(<<>>), seen |-> seen]

fetch_items(script, seen, limit, fetchOk) ==
  IF ~fetchOk THEN [result |-> Returned(<<>>), seen |-> seen]
  ELSE fetched(extract_next_data(script), seen, limit)

(***************************************************************************)
(* modules/scraper.py : the markup resolver of MercariScraper              *)
(***************************************************************************)
\* number of container selectors in _extract_product_elements
NumSelectors == 11

\* a character that is neither a digit, a separator, a currency sign nor
\* whitespace
LETTER == "x"

\* an href is the sequence of its path segments; <<>> is the empty href
ItemPath(id) == <<"/item/", id>>
OtherPath == <<"/help">>

\* '/item/' in href
IsItemPath(href) == href # <<>> /\ href[1] = "/item/"

\* a node of the parsed page as _parse_product_element reads it:
\*   tag          element.name
\*   href         element.get('href', '')
\*   child_href   href of element.find('a', href=True), <<>> without one
\*   title        what the title selectors and the img alt give: None when
\*                nothing is found, otherwise the text before clean_text
\*   price_elems  get_text() of the nodes the price selectors find, in the
\*                order of the selectors
\*   text         element.get_text()
Node(tag, href, child_href, title, price_elems, text) ==
  [tag |-> tag, href |-> href, child_href |-> child_href, title |-> title,
   price_elems |-> price_elems, text |-> text]

E_full == Node("div", <<>>, ItemPath("m1"), "Lens",
               <<Render(1500, "symbol_sep")>>,
               <<LETTER, SPACE>> \o Render(1500, "symbol_sep"))
E_nolink == Node("div", <<>>, <<>>, "Bag", <<Render(2000, "suffix")>>,
                 <<LETTER>> \o Render(2000, "suffix"))
E_cheap == Node("li", <<>>, ItemPath("m3"), "Pin", <<Render(5, "symbol")>>,
                <<LETTER>> \o Render(5, "symbol"))
E_noprice == Node("li", <<>>, ItemPath("m4"), " ", <<>>, <<LETTER>>)

L_min == Node("a", ItemPath("m7"), <<>>, None, <<>>, <<>>)
L_priced == Node("a", ItemPath("m8"), <<>>, "Cup", <<>>,
                 <<LETTER, SPACE>> \o Render(2000, "symbol_sep"))
L_help == Node("a", OtherPath, <<>>, "Help", <<>>, <<LETTER>>)

SampleNodes == {E_full, E_nolink, E_cheap, E_noprice}
SampleLinks == {L_min, L_priced, L_help}

\* clean_text on a title: whitespace collapses to the empty string
clean_text(t) == IF t = " " THEN "" ELSE t

\* the extract_price scraper.py defines when core cannot be imported:
\* commas and yen signs removed, then int of the first run of digits, 0
\* without one
RECURSIVE StripSigns(_)
StripSigns(t) ==
  IF t = <<>> THEN <<>>
  ELSE IF Head(t) \in {COMMA, YEN, FWYEN} THEN StripSigns(Tail(t))
       ELSE <<Head(t)>> \o StripSigns(Tail(t))

\* end of the run of digits that starts at i
RECURSIVE DigitRunEnd(_, _)
DigitRunEnd(t, i) ==
  IF i < Len(t) /\ IsDigit(t[i + 1]) THEN DigitRunEnd(t, i + 1) ELSE i

extract_price_fallback(text) ==
  LET t == StripSigns(text)
      ds == {i \in 1..Len(t) : IsDigit(t[i])}
  IN  IF ds = {} THEN 0
      ELSE LET i == CHOOSE x \in ds : \A y \in ds : x <= y
           IN  ToInt(SubSeq(t, i, DigitRunEnd(t, i)))

\* _extract_product_url(element)
extract_product_url(el) ==
  IF el.tag = "a" /\ el.href # <<>> THEN el.href
  ELSE IF IsItemPath(el.child_href) THEN el.child_href
  ELSE <<>>

\* _extract_product_id(url)
extract_product_id(url) == IF IsItemPath(url) THEN url[2] ELSE "unknown_time"

\* _extract_title(element)
extract_title(el) == IF el.title = None THEN "unknown title"
                     ELSE clean_text(el.title)

\* the name extract_price in scraper.py: the one of core.utils, or the one
\* the module defines itself when the import fails
extract_price_imported(text, core) ==
  IF core THEN extract_price(text) ELSE extract_price_fallback(text)

\* _extract_price_from_element(element); core: extract_price is the one of
\* core.utils, whose None makes `price > 0` raise TypeError
RECURSIVE extract_price_from_element(_, _, _)
\* `if price > 0: return price` on the price of the first of price_elems
price_found(price, price_elems, text, core) ==
  IF core /\ price = NoPrice THEN Raised
  ELSE IF price > 0 THEN Returned(price)
  ELSE extract_price_from_element(Tail(price_elems), text, core)

extract_price_from_element(price_elems, text, core) ==
  IF price_elems = <<>> THEN Returned(extract_price_imported(text, core))
  ELSE price_found(extract_price_imported(Head(price_elems), core),
                   price_elems, text, core)

\* the rest of _parse_product_element once url and price are read: None
\* (Raised) when the url is missing or an exception was caught; the debug
\* line formats the price with ':,' and raises TypeError on None
build_product(el, url, price) ==
  IF url = <<>> THEN Raised
  ELSE IF price.raised THEN Raised
  ELSE IF price.value = NoPrice THEN Raised
  ELSE Returned(Product(extract_product_id(url), extract_title(el),
                        price.value, <<"https://jp.mercari.com">> \o url))

\* _parse_product_element(element)
parse_product_element(el, core) ==
  build_product(el, extract_product_url(el),
                extract_price_from_element(el.price_elems, el.text, core))

\* a loop over the selectors that keeps the last one that matches
first_match_overwritten(cells) ==
  LET hits == {i \in DOMAIN cells : cells[i] # <<>>}
  IN  IF hits = {} THEN 0 ELSE CHOOSE i \in hits : \A j \in hits : i >= j

\* first container selector that matches, 0 when none does
first_match(cells) ==
  LET hits == {i \in DOMAIN cells : cells[i] # <<>>}
  IN  IF hits = {} THEN 0 ELSE CHOOSE i \in hits : \A j \in hits : i <= j

\* [link for link in all_links if '/item/' in link.get('href', '')]
RECURSIVE product_links(_)
product_links(links) ==
  IF links = <<>> THEN <<>>
  ELSE IF IsItemPath(Head(links).href)
       THEN <<Head(links)>> \o product_links(Tail(links))
       ELSE product_links(Tail(links))

\* the matches of selector i, other when no selector matched (i = 0)
elements_or(cells, i, other) == IF i # 0 THEN cells[i] ELSE other

\* _extract_product_elements without the '/item/' test of the fallback
extract_product_elements_unfiltered(cells, links) ==
  elements_or(cells, first_match(cells), links)

\* _extract_product_elements(soup)
extract_product_elements(cells, links) ==
  elements_or(cells, first_match(cells), product_links(links))

\* `if product: products.append(product)`
Emit(r) == IF r.raised THEN <<>> ELSE <<r.value>>

\* the loop of search_products over product_elements[:max_items]
RECURSIVE parse_all(_, _)
parse_all(elements, core) ==
  IF elements = <<>> THEN <<>>
  ELSE Emit(parse_product_element(Head(elements), core))
         \o parse_all(Tail(elements), core)

\* search_products(keyword, conditions, max_items); fetchOk: _fetch_page
\* returned a response
search_products(cells, links, limit, core, fetchOk) ==
  IF ~fetchOk THEN Returned(<<>>)
  ELSE Returned(parse_all(Take(extract_product_elements(cells, links), limit),
                          core))

(***************************************************************************)
(* modules/research.py : ProductExtractor                                  *)
(***************************************************************************)
\* number of selectors in self.selectors['product_list']
NumListSelectors == 5

\* the upper end of the range _validate_product_data accepts
VALIDATE_MAX_PRICE == 10000000

\* an element as _extract_single_product reads it:
\*   href         get_attribute('href') of the first product_link found,
\*                <<>> without one
\*   title        textContent of the first product_title found, None
\*                without one
\*   price_elems  textContent of the nodes the product_price selectors find
\*   soup         the element is a BeautifulSoup tag (found by soup.select),
\*                on which every find_element call fails
WebElement(href, title, price_elems) ==
  [href |-> href, title |-> title, price_elems |-> price_elems,
   soup |-> FALSE]

W_full == WebElement(ItemPath("m1"), "Lens", <<Render(1500, "symbol_sep")>>)
W_notitle == WebElement(ItemPath("m2"), None, <<Render(1500, "suffix")>>)
W_blank == WebElement(ItemPath("m3"), " ", <<Render(800, "bare")>>)
W_cheap == WebElement(ItemPath("m4"), "Pin", <<Render(5, "symbol")>>)
W_second == WebElement(ItemPath("m5"), "Bag",
                       <<Render(5, "symbol"), Render(2000, "suffix_sep")>>)
W_nourl == WebElement(<<>>, "Cup", <<Render(300, "bare")>>)
W_soup == [href |-> ItemPath("m6"), title |-> "Hat",
           price_elems |-> <<Render(900, "bare")>>, soup |-> TRUE]

SampleWebElements == {W_full, W_notitle, W_blank, W_cheap, W_second, W_nourl}

\* _extract_product_title(element)
extract_product_title(el) ==
  IF el.soup \/ Falsy(el.title) THEN None ELSE clean_text(el.title)

\* _extract_product_price(element): the first selector whose text yields a
\* price wins
RECURSIVE first_price(_)
\* `if price: return price`
price_or_next(price, price_elems) ==
  IF price # NoPrice THEN price ELSE first_price(Tail(price_elems))

first_price(price_elems) ==
  IF price_elems = <<>> THEN NoPrice
  ELSE price_or_next(extract_price(Head(price_elems)), price_elems)

extract_product_price(el) ==
  IF el.soup THEN NoPrice ELSE first_price(el.price_elems)

\* _validate_product_data(product_data)
validate_product_data(title, price) ==
  /\ ~Falsy(title)
  /\ price # NoPrice
  /\ price > 0 /\ price <= VALIDATE_MAX_PRICE

\* the end of _extract_single_product: the product when it validates, else
\* None (Raised); generate_product_id gives 16 hex digits
validated(title, price, url) ==
  IF validate_product_data(title, price)
  THEN Returned(Product("md5-hexdigest", title, price, url))
  ELSE Raised

\* _extract_single_product(element, soup, driver)
extract_single_product(el) ==
  validated(extract_product_title(el), extract_product_price(el),
            IF el.soup THEN <<>> ELSE el.href)

\* _find_product_elements(driver, soup): the Selenium matches of the first
\* selector that has some, else the BeautifulSoup matches
find_product_elements(rcells, scells) ==
  elements_or(rcells, first_match(rcells),
              elements_or(scells, first_match(scells), <<>>))

RECURSIVE extract_all(_)
extract_all(elements) ==
  IF elements = <<>> THEN <<>>
  ELSE Emit(extract_single_product(Head(elements)))
         \o extract_all(Tail(elements))

\* extract_products_from_page(driver); sourceOk: driver.page_source did not
\* raise
extract_products_from_page(rcells, scells, sourceOk) ==
  IF ~sourceOk THEN Returned(<<>>)
  ELSE Returned(extract_all(find_product_elements(rcells, scells)))

(***************************************************************************)
(* modules/image_filter.py : ImageFilter                                   *)
(***************************************************************************)
\* `if self._hamming_distance(hash_val, seen_hash) <= 4`
DUP_THRESHOLD == 4

\* points of the four checks of _is_professional_item
BACKGROUND_POINTS == 2
RESOLUTION_POINTS == 1
LIGHTING_POINTS == 1
SHARPNESS_POINTS == 1

\* `ratio >= 0.6`, the ratio of two small integers, as a fraction
RATIO_NUM == 3
RATIO_DEN == 5

\* a hexadecimal digit of str(imagehash.phash(img)) is the four bits it
\* stands for; a fingerprint is the sequence of its digits
ZeroDigit == <<0, 0, 0, 0>>

\* the digit whose bits differ from those of d where mask has a 1
XorDigit(d, mask) == [b \in 1..4 |-> (d[b] + mask[b]) % 2]

\* _hamming_distance(s1, s2) on the two strings: the count of positions of
\* zip(s1, s2) that hold different characters
hamming_distance(s1, s2) ==
  Cardinality({i \in 1..Min(Len(s1), Len(s2)) : s1[i] # s2[i]})

\* a threshold that leaves out the distance 4 itself
within_threshold_exclusive(d) == d < DUP_THRESHOLD

\* `... <= 4`
within_threshold(d) == d <= DUP_THRESHOLD

\* the rest of _is_duplicate once the loop over seen_hashes found a close
\* fingerprint or not: the answer and seen_hashes afterwards
duplicate_result(dup, hash_val, seen) ==
  [dup |-> dup, seen |-> IF dup THEN seen ELSE seen \cup {hash_val}]

\* _is_duplicate(img)
is_duplicate(hash_val, seen) ==
  duplicate_result(
    \E seen_hash \in seen :
       within_threshold(hamming_distance(hash_val, seen_hash)),
    hash_val, seen)

\* `range(0, width, 10)`: distance between two sampled border pixels
SAMPLE_STEP == 10

\* `white_count / len(edge_pixels) > 0.8`, the ratio as a fraction
WHITE_NUM == 4
WHITE_DEN == 5

\* len(range(0, side, 10))
samples_along(side) == (side + SAMPLE_STEP - 1) \div SAMPLE_STEP

\* len(edge_pixels): top and bottom row, left and right column
edge_pixel_count(width, height) ==
  2 * samples_along(width) + 2 * samples_along(height)

\* _has_white_background(img), white_count of the edge_pixels sampled having
\* every channel above 240
has_white_background(white_count, edge_pixels) ==
  WHITE_DEN * white_count > WHITE_NUM * edge_pixels

\* what the background check gives for an item: an item with bg "measure"
\* carries its size and the count of near-white border samples
background_outcome(item) ==
  IF item.bg = "measure"
  THEN IF has_white_background(item.white_count,
                               edge_pixel_count(item.width, item.height))
       THEN "pass" ELSE "fail"
  ELSE item.bg

\* the checks _is_professional_item runs, in order, with their points; the
\* background check is run only when the configuration asks for it
checks_of(item, white_background) ==
  (IF white_background
   THEN <<[points |-> BACKGROUND_POINTS,
           outcome |-> background_outcome(item)]>>
   ELSE <<>>)
    \o <<[points |-> RESOLUTION_POINTS, outcome |-> item.res],
         [points |-> LIGHTING_POINTS, outcome |-> item.light],
         [points |-> SHARPNESS_POINTS, outcome |-> item.sharp]>>

\* score and max_score after the checks; a check that raises ends them
RECURSIVE tally(_, _, _)
tally(checks, score, max_score) ==
  IF checks = <<>>
  THEN [raised |-> FALSE, score |-> score, max_score |-> max_score]
  ELSE IF Head(checks).outcome = "raise"
  THEN [raised |-> TRUE, score |-> score, max_score |-> max_score]
  ELSE tally(Tail(checks),
             IF Head(checks).outcome = "pass"
             THEN score + Head(checks).points ELSE score,
             max_score + Head(checks).points)

\* a verdict that needs more than the ratio
ratio_passes_strict(score, max_score) ==
  max_score > 0 /\ RATIO_DEN * score > RATIO_NUM * max_score

\* `if max_score > 0: ratio = score / max_score; return ratio >= 0.6`
ratio_passes(score, max_score) ==
  max_score > 0 /\ RATIO_DEN * score >= RATIO_NUM * max_score

\* what _is_professional_item did with one item: the stage it returned
\* from, its verdict, the points and seen_hashes afterwards
Verdict(stage, passed, score, max_score, seen) ==
  [stage |-> stage, passed |-> passed, score |-> score,
   max_score |-> max_score, seen |-> seen]

\* the scoring of an image that is no duplicate; the except clause of
\* _is_professional_item turns an exception into False
scored(t, seen) ==
  IF t.raised THEN Verdict("error", FALSE, t.score, t.max_score, seen)
  ELSE Verdict("scored", ratio_passes(t.score, t.max_score), t.score,
               t.max_score, seen)

\* _is_professional_item after the download gave an image; d is what
\* _is_duplicate answered
judged(item, d, white_background) ==
  IF d.dup THEN Verdict("duplicate", FALSE, 0, 0, d.seen)
  ELSE scored(tally(checks_of(item, white_background), 0, 0), d.seen)

\* an _is_professional_item that takes the fingerprint before it looks at
\* what the download gave
is_professional_item_hash_first(item, seen, white_background) ==
  IF Falsy(item.thumb_url) THEN Verdict("no_url", FALSE, 0, 0, seen)
  ELSE IF ~item.reachable
  THEN Verdict("no_image", FALSE, 0, 0, seen \cup {item.hash})
  ELSE judged(item, is_duplicate(item.hash, seen), white_background)

\* _is_professional_item(item); item.reachable: _download_image returned an
\* image (it returns None when the request or the decoding raises)
is_professional_item(item, seen, white_background) ==
  IF Falsy(item.thumb_url) THEN Verdict("no_url", FALSE, 0, 0, seen)
  ELSE IF ~item.reachable THEN Verdict("no_image", FALSE, 0, 0, seen)
  ELSE judged(item, is_duplicate(item.hash, seen), white_background)

\* filter_items(items): the filtered list, seen_hashes afterwards and, for
\* each item in turn, what _is_professional_item did with it
RECURSIVE filter_items(_, _, _)
\* a filter that puts each passed item in front of those passed before it
filter_join_front(v, item, rest) ==
  [filtered |-> rest.filtered \o (IF v.passed THEN <<item>> ELSE <<>>),
   seen |-> rest.seen,
   log |-> <<[stage |-> v.stage, passed |-> v.passed,
              score |-> v.score, max_score |-> v.max_score,
              seen_after |-> v.seen]>> \o rest.log]

\* `if self._is_professional_item(item): filtered.append(item)`, then the
\* rest of the loop
filter_join(v, item, rest) ==
  [filtered |-> (IF v.passed THEN <<item>> ELSE <<>>) \o rest.filtered,
   seen |-> rest.seen,
   log |-> <<[stage |-> v.stage, passed |-> v.passed,
              score |-> v.score, max_score |-> v.max_score,
              seen_after |-> v.seen]>> \o rest.log]

filter_step(v, items, white_background) ==
  filter_join(v, Head(items),
              filter_items(Tail(items), v.seen, white_background))

filter_items(items, seen, white_background) ==
  IF items = <<>> THEN [filtered |-> <<>>, seen |-> seen, log |-> <<>>]
  ELSE filter_step(is_professional_item(Head(items), seen, white_background),
                   items, white_background)

(***************************************************************************)
(* State                                                                   *)
(***************************************************************************)
VARIABLES
  \* MercariErrorHandler.error_stats: exception type -> count
  error_stats,
  \* the last direct call on the handler and what it returned
  lastCall,
  \* retry_on_error.wrapper: control point
  pc,
  \* RetryConfig.max_retries of the policy in force
  max_retries,
  \* whether an error_handler was given to retry_on_error
  hasHandler,
  \* the loop variable `attempt`
  attempt,
  \* number of invocations of the wrapped function so far
  calls,
  \* number of time.sleep calls begun so far
  sleeps,
  \* the local `last_exception`
  last_exception,
  \* the exception raised by the most recent invocation (history)
  lastRaised,
  \* the exception types raised by the invocations so far (history)
  raisedKinds,
  \* whether a recovery strategy raised during this run (history)
  strategyThrew,
  \* what the wrapper returned or raised
  outcome,
  \* the interval the current sleep is drawn from, in tenths of a second
  wait_time,
  \* whether the user has interrupted the run (Ctrl+C)
  cancelled,
  \* the price that was rendered, the rendering used and the text obtained
  priceIn, priceStyle, priceText,
  \* whether extract_price was called on priceText and what it returned
  priceOut,
  \* the page a resolver is given: its script tag, the matches of the
  \* container selectors and its hyperlinks
  page,
  \* whether scraper.py could import core (else it uses its own helpers)
  coreImported,
  \* the seen_items table of NextDataScraper's database
  seen_items,
  \* the resolver operation that ran, with its arguments
  rOp,
  \* what the operation returned, and whether it raised instead
  rResult, rRaised,
  \* the first_seen column of seen_items, and the value of datetime.now()
  first_seen, clock,
  \* how often _filter_new_items returned each id, its last call, and how
  \* often the program was started on the database
  admissions, lastFilter, runs,
  \* ImageFilter: config['professional_features']['white_background'], the
  \* list filter_items is given, self.seen_hashes, whether filter_items ran,
  \* the list it returned and what it did with each item
  white_background, imgItems, seen_hashes, imgDone, imgFiltered, imgLog,
  \* a run over the keywords: which loop runs it, the number of keywords,
  \* the index of the next keyword, the list gathered so far (all_items,
  \* all_products), what each fetch gave, whether the run ended and the list
  \* it notified and saved
  runKind, nKeywords, kw, all_items, fetches, runDone, runOutput,
  \* the passes of the monitor (one keyword of one check each) made so far
  \* and seen_hashes as it was when the latest pass began
  passes, seen_at_pass,
  \* MercariResearcher.search_products: the position in its body, whether
  \* rpa.driver is set, the browser sessions created and not yet quit, those
  \* created in all, the two limits of the configuration, page_count,
  \* len(all_products), the calls of extract_products_from_page in this
  \* attempt, whether the latest page held no product, whether
  \* _go_to_next_page returned False, and the list returned
  sStep, has_driver, open_sessions, sessions_made, max_pages, max_products,
  page_count, n_products, extractions, empty_page, next_failed,
  final_products

handlerVars == <<error_stats, lastCall>>
retryVars == <<pc, max_retries, hasHandler, attempt, calls, sleeps,
               last_exception, lastRaised, raisedKinds, strategyThrew,
               outcome, wait_time, cancelled>>

(***************************************************************************)
(* Direct calls on MercariErrorHandler                                     *)
(***************************************************************************)
TotalErrors(stats) ==
  LET RECURSIVE Sum(_)
      Sum(S) == IF S = {} THEN 0
                ELSE LET k == CHOOSE x \in S : TRUE
                     IN  stats[k] + Sum(S \ {k})
  IN  Sum(DOMAIN stats)

HandlerInit ==
  /\ error_stats = [k \in Kinds |-> 0]
  /\ lastCall = [op |-> "none"]

\* error_handler.classify_error(error)
ClassifyError(k) ==
  /\ lastCall' = [op |-> "classify", kind |-> k,
                  result |-> classify_error(k),
                  stats_before |-> error_stats]
  /\ UNCHANGED error_stats

\* error_handler.handle_error(error, context)
HandleError(k, ctx, driverOk, throws) ==
  /\ TotalErrors(error_stats) < MaxErrors
  /\ error_stats' = update_error_stats(error_stats, k)
  /\ lastCall' = [op |-> "handle", kind |-> k,
                  result |-> handle_error_result(k, ctx, driverOk, throws),
                  stats_before |-> error_stats]

(***************************************************************************)
(* retry_on_error.wrapper                                                  *)
(***************************************************************************)
\* an exception instance: its type and the invocation that raised it
Exc(k, n) == [kind |-> k, seq |-> n]

\* `last_exception = None`, and "nothing raised or returned yet"
NoExc == [kind |-> "None", seq |-> 0]

\* the value invocation n of func returned
Value(n) == [kind |-> "value", seq |-> n]

\* `last_exception = e` that keeps the first exception instead
record_exception_first(prev, e) == IF prev = NoExc THEN e ELSE prev

\* `last_exception = e`
record_exception(prev, e) == e

\* wait time of the branch without handler, as a degenerate interval
backoff_wait(att) ==
  LET w == Min(base_delay * Pow(backoff_multiplier, att), max_delay)
  IN  <<w, w>>

\* wait_time * random.uniform(0.8, 1.2): the interval of possible sleeps
actual_wait(w) == <<w[1] * JitterLo, w[2] * JitterHi>>

\* loop bound that stops one attempt early: range(config.max_retries)
is_last_attempt_early(att, n) == att + 1 >= n

\* `attempt == config.max_retries`
is_last_attempt(att, n) == att = n

\* a wrapper that sleeps and retries whatever the handler recommends
stop_recommended_ignored(result) == FALSE

\* `if not result.get('retry_recommended', True): break`
stop_recommended(result) == ~Get(result, "retry_recommended", TRUE)

\* the wrapper before its call, under RetryConfig(max_retries = n) and with
\* (h) or without an error handler
RetryConf(n, h) ==
  /\ pc = "idle"
  /\ max_retries = n
  /\ hasHandler = h
  /\ attempt = 0
  /\ calls = 0
  /\ sleeps = 0
  /\ last_exception = NoExc
  /\ lastRaised = NoExc
  /\ raisedKinds = {}
  /\ strategyThrew = FALSE
  /\ outcome = NoExc
  /\ wait_time = <<0, 0>>
  /\ cancelled = FALSE

RetryInit == \E n \in 0..MaxRetries, h \in BOOLEAN : RetryConf(n, h)

\* no decorated call in this specification
RetryQuiet == RetryConf(0, FALSE)

\* the decorated function is called: first iteration of the for loop
Call ==
  /\ pc = "idle"
  /\ pc' = "attempting"
  /\ attempt' = 0
  /\ calls' = 1
  /\ UNCHANGED <<max_retries, hasHandler, sleeps, last_exception, lastRaised,
                 raisedKinds, strategyThrew, outcome, wait_time, cancelled,
                 error_stats, lastCall>>

\* func returns normally: `return func(*args, **kwargs)`
OpReturns ==
  /\ pc = "attempting"
  /\ pc' = "returned"
  /\ outcome' = Value(calls)
  /\ UNCHANGED <<max_retries, hasHandler, attempt, calls, sleeps,
                 last_exception, lastRaised, raisedKinds, strategyThrew,
                 wait_time, cancelled, error_stats, lastCall>>

\* func raises an exception of type k, having left the handler's
\* statistics and latest call as stats and latest; the except clause runs up
\* to the break, the raise or the start of time.sleep
OpRaisesAfter(k, throws, stats, latest) ==
  /\ pc = "attempting"
  /\ throws => (hasHandler /\ k \in recovery_strategies)
  /\ LET e == Exc(k, calls)
         result == handle_error_result(k, WrapperContext, TRUE, throws)
         consult == /\ IsException(k)
                    /\ ~is_last_attempt(attempt, max_retries)
                    /\ hasHandler
     IN  /\ lastRaised' = e
         /\ raisedKinds' = raisedKinds \cup {k}
         /\ strategyThrew' = (strategyThrew \/ (consult /\ throws))
         /\ last_exception' = IF IsException(k)
                              THEN record_exception(last_exception, e)
                              ELSE last_exception
         /\ error_stats' = IF consult THEN update_error_stats(stats, k)
                           ELSE stats
         /\ lastCall' = IF consult
                        THEN [op |-> "handle", kind |-> k, result |-> result,
                              stats_before |-> stats]
                        ELSE latest
         /\ IF ~IsException(k)
            THEN \* not caught by `except Exception`
                 /\ pc' = "raised"
                 /\ outcome' = e
                 /\ UNCHANGED <<wait_time, sleeps>>
            ELSE IF is_last_attempt(attempt, max_retries)
                    \/ (hasHandler /\ stop_recommended(result))
            THEN \* break, then `raise last_exception`
                 /\ pc' = "raised"
                 /\ outcome' = last_exception'
                 /\ UNCHANGED <<wait_time, sleeps>>
            ELSE /\ pc' = "sleeping"
                 /\ wait_time' = actual_wait(
                        IF hasHandler THEN Get(result, "wait_time", <<0, 0>>)
                        ELSE backoff_wait(attempt))
                 /\ sleeps' = sleeps + 1
                 /\ UNCHANGED outcome
  /\ UNCHANGED <<max_retries, hasHandler, attempt, calls, cancelled>>

\* func raises an exception of type k and has not used the handler itself
OpRaises(k, throws) == OpRaisesAfter(k, throws, error_stats, lastCall)

\* a loop variable that the next iteration does not advance
next_attempt_stuck(att) == att

\* `for attempt in range(config.max_retries + 1)`: the next iteration
next_attempt(att) == att + 1

\* time.sleep returns: next iteration of the for loop, func is called again
SleepDone ==
  /\ pc = "sleeping"
  /\ pc' = "attempting"
  /\ attempt' = next_attempt(attempt)
  /\ calls' = calls + 1
  /\ UNCHANGED <<max_retries, hasHandler, sleeps, last_exception, lastRaised,
                 raisedKinds, strategyThrew, outcome, wait_time, cancelled,
                 error_stats, lastCall>>

\* Ctrl+C while the wrapper runs: KeyboardInterrupt is raised at the point
\* of execution.  In time.sleep it leaves the wrapper (no handler catches
\* BaseException).  Inside func it either leaves func and the wrapper, or
\* is swallowed by a bare `except:` of the operation (swallowed = TRUE),
\* which then carries on.
Interrupt(swallowed) ==
  /\ pc \in {"attempting", "sleeping"}
  /\ ~cancelled
  /\ cancelled' = TRUE
  /\ swallowed => pc = "attempting"
  /\ IF swallowed
     THEN UNCHANGED <<pc, outcome>>
     ELSE /\ pc' = "raised"
          /\ outcome' = Exc("KeyboardInterrupt", 0)
  /\ UNCHANGED <<max_retries, hasHandler, attempt, calls, sleeps,
                 last_exception, lastRaised, raisedKinds, strategyThrew,
                 wait_time, error_stats, lastCall>>

(***************************************************************************)
(* extract_price applied to rendered prices                                *)
(***************************************************************************)
priceVars == <<priceIn, priceStyle, priceText, priceOut>>

PriceInputs ==
  (0..MaxSmallPrice)
    \cup {MIN_PRICE + d : d \in (0 - PriceDelta)..PriceDelta}
    \cup {MAX_PRICE + d : d \in (0 - PriceDelta)..PriceDelta}
    \cup {999, 1000, 1500, 12345, 1234567, 10000000}

\* a price, one of its renderings, extract_price not yet called
PriceConf(p, st) ==
  /\ priceIn = p
  /\ priceStyle = st
  /\ priceText = Render(p, st)
  /\ priceOut = [called |-> FALSE, value |-> NoPrice]

PriceInit == \E p \in PriceInputs, st \in Styles : PriceConf(p, st)

PriceQuiet == PriceConf(0, "bare")

\* price = extract_price(price_text)
ExtractPrice ==
  /\ ~priceOut.called
  /\ priceOut' = [called |-> TRUE, value |-> extract_price(priceText)]
  /\ UNCHANGED <<priceIn, priceStyle, priceText>>

(***************************************************************************)
(* The resolvers applied to a page                                         *)
(***************************************************************************)
resolveVars == <<page, coreImported, seen_items, rOp, rResult, rRaised,
                 first_seen, clock>>

\* sequences over S of length at most n
SeqsUpTo(S, n) == UNION {[1..m -> S] : m \in 0..n}

Page(script, cells, links, rcells, scells) ==
  [script |-> script, cells |-> cells, links |-> links,
   rcells |-> rcells, scells |-> scells]

\* no container selector matches
NoCells == [i \in 1..NumSelectors |-> <<>>]
NoListCells == [i \in 1..NumListSelectors |-> <<>>]

\* selector s matches the elements es; a later selector t matches too
CellsAt(n, s, es) == [i \in 1..n |-> IF i = s THEN es ELSE <<>>]
CellsAt2(n, s, es, t, fs) ==
  [i \in 1..n |-> IF i = s THEN es ELSE IF i = t THEN fs ELSE <<>>]

Scripts ==
  {NoScript, BadJson}
    \cup {Payload(s1, s2, s3) : s1 \in SeqsUpTo(SampleItems, MaxItems),
                                s2 \in {<<>>, <<I_second>>},
                                s3 \in {<<>>, <<I_third>>}}

CellChoices ==
  {NoCells}
    \cup {CellsAt(NumSelectors, s, es) :
            s \in {1, NumSelectors},
            es \in SeqsUpTo(SampleNodes, MaxElems) \ {<<>>}}
    \cup {CellsAt2(NumSelectors, 2, es, NumSelectors, <<E_nolink>>) :
            es \in SeqsUpTo(SampleNodes, MaxElems) \ {<<>>}}

ListCellChoices ==
  {NoListCells}
    \cup {CellsAt(NumListSelectors, s, es) :
            s \in {1, NumListSelectors},
            es \in SeqsUpTo(SampleWebElements, MaxElems) \ {<<>>}}
    \cup {CellsAt2(NumListSelectors, 2, es, NumListSelectors, <<W_full>>) :
            es \in SeqsUpTo(SampleWebElements, MaxElems) \ {<<>>}}

\* pages whose script tag varies; the markup has hyperlinks only where the
\* script gives no item
StructuredPages ==
  {Page(sc, NoCells, <<>>, NoListCells, NoListCells) : sc \in Scripts}
    \cup {Page(sc, NoCells, <<L_min, L_help, L_priced>>, NoListCells,
               NoListCells) :
            sc \in {NoScript, BadJson, Payload(<<>>, <<>>, <<>>)}}

\* pages whose markup varies, read by MercariScraper: some container
\* selector matches, or only hyperlinks are there
MarkupPages ==
  {Page(NoScript, cells, lk, NoListCells, NoListCells) :
     cells \in CellChoices, lk \in {<<>>, <<L_priced>>}}
    \cup {Page(NoScript, NoCells, lk, NoListCells, NoListCells) :
            lk \in SeqsUpTo(SampleLinks, MaxElems)}

\* pages whose markup varies, read by ProductExtractor through the driver
DriverPages ==
  {Page(NoScript, NoCells, <<>>, rc, sc) :
     rc \in ListCellChoices,
     sc \in {NoListCells, CellsAt(NumListSelectors, 1, <<W_soup>>)}}

NoOp == [name |-> "none", limit |-> 0, ok |-> TRUE]

\* a page, the build of scraper.py and the rows of seen_items; no operation
\* has run
ResolveConf(pg, core, seen) ==
  /\ page = pg
  /\ coreImported = core
  /\ seen_items = seen
  /\ first_seen = [id \in seen |-> 0]
  /\ clock = 1
  /\ rOp = NoOp
  /\ rResult = <<>>
  /\ rRaised = FALSE

ResolveInit ==
  \/ \E pg \in StructuredPages, seen \in {{}, {"m1"}} :
        ResolveConf(pg, TRUE, seen)
  \/ \E pg \in MarkupPages, core \in BOOLEAN : ResolveConf(pg, core, {})
  \/ \E pg \in DriverPages : ResolveConf(pg, TRUE, {})

ResolveQuiet == ResolveConf(Page(NoScript, NoCells, <<>>, NoListCells,
                                 NoListCells), TRUE, {})

\* the operation name(limit, ok) ended with r
Finish(name, limit, ok, r) ==
  /\ rRaised' = r.raised
  /\ rResult' = IF r.raised THEN <<>> ELSE r.value
  /\ rOp' = [name |-> name, limit |-> limit, ok |-> ok]

FinishFetch(limit, ok, r) ==
  /\ Finish("fetch_items", limit, ok, r.result)
  /\ seen_items' = r.seen
  /\ first_seen' = [id \in r.seen |->
                      IF id \in DOMAIN first_seen THEN first_seen[id]
                      ELSE clock]
  /\ clock' = clock + 1

\* NextDataScraper.fetch_items(keyword, conditions, max_items)
FetchItems(limit, fetchOk) ==
  /\ rOp = NoOp
  /\ FinishFetch(limit, fetchOk,
                 fetch_items(page.script, seen_items, limit, fetchOk))
  /\ UNCHANGED <<page, coreImported>>

\* MercariScraper.search_products(keyword, conditions, max_items)
SearchProducts(limit, fetchOk) ==
  /\ rOp = NoOp
  /\ Finish("search_products", limit, fetchOk,
            search_products(page.cells, page.links, limit, coreImported,
                            fetchOk))
  /\ UNCHANGED <<page, coreImported, seen_items, first_seen, clock>>

\* ProductExtractor.extract_products_from_page(driver)
ExtractProductsFromPage(sourceOk) ==
  /\ rOp = NoOp
  /\ Finish("extract_products_from_page", 0, sourceOk,
            extract_products_from_page(page.rcells, page.scells, sourceOk))
  /\ UNCHANGED <<page, coreImported, seen_items, first_seen, clock>>

(***************************************************************************)
(* _filter_new_items called again and again on one database                *)
(***************************************************************************)
noveltyVars == <<admissions, lastFilter, runs>>

NoveltyIds == {"m1", "m2", "m3"}

\* an item as _format_item builds it, with the given id
Item(id) == Product(id, "Lens", 1500, <<"https://jp.mercari.com/item/", id>>)

Batches == SeqsUpTo({Item(id) : id \in NoveltyIds}, MaxBatch)

NoFilter == [called |-> FALSE, batch |-> <<>>, new_items |-> <<>>,
             before |-> <<>>, run |-> 0]

\* no call of _filter_new_items yet, first start of the program
NoveltyQuiet ==
  /\ admissions = [id \in NoveltyIds |-> 0]
  /\ lastFilter = NoFilter
  /\ runs = 1

\* an empty database
NoveltyInit ==
  /\ NoveltyQuiet
  /\ ResolveConf(Page(NoScript, NoCells, <<>>, NoListCells, NoListCells),
                 TRUE, {})

\* number of times id occurs among the ids of items
RECURSIVE Occurrences(_, _)
Occurrences(items, id) ==
  IF items = <<>> THEN 0
  ELSE (IF Head(items).id = id THEN 1 ELSE 0) + Occurrences(Tail(items), id)

\* _filter_new_items(batch) returned f, conn.commit() done
Filtered(batch, f) ==
  /\ seen_items' = f.seen
  /\ first_seen' = record_first_seen(first_seen, f.new_items, clock)
  /\ admissions' = [id \in NoveltyIds |->
                      admissions[id] + Occurrences(f.new_items, id)]
  /\ lastFilter' = [called |-> TRUE, batch |-> batch,
                    new_items |-> f.new_items, before |-> first_seen,
                    run |-> runs]

\* NextDataScraper._filter_new_items(items)
FilterNewItems(batch) ==
  /\ clock <= MaxFilterCalls
  /\ Filtered(batch, filter_new_items(batch, seen_items))
  /\ clock' = clock + 1
  /\ UNCHANGED <<page, coreImported, rOp, rResult, rRaised, runs>>

\* the program is started again on the same database file:
\* NextDataScraper.__init__ and _init_db (CREATE TABLE IF NOT EXISTS)
Restart ==
  /\ runs <= MaxRuns
  /\ runs' = runs + 1
  /\ UNCHANGED <<resolveVars, admissions, lastFilter>>

(***************************************************************************)
(* ImageFilter.filter_items on a list of items                             *)
(***************************************************************************)
imageVars == <<white_background, imgItems, seen_hashes, imgDone, imgFiltered,
               imgLog>>

\* the fingerprint whose digits are all d
Uniform(d) == [i \in 1..HashDigits |-> d]

\* per digit: no bit, one bit, two bits or all four bits changed
DigitMasks == {<<0, 0, 0, 0>>, <<0, 0, 0, 1>>, <<0, 0, 1, 1>>, <<1, 1, 1, 1>>}

\* the fingerprint h with the bits of masks changed, digit by digit
XorHash(h, masks) == [i \in 1..HashDigits |-> XorDigit(h[i], masks[i])]

\* an item with a thumbnail that downloads, with the given fingerprint and
\* check outcomes
Img(id, hash, bg, res, light, sharp) ==
  [id |-> id, thumb_url |-> "t", reachable |-> TRUE, hash |-> hash,
   bg |-> bg, res |-> res, light |-> light, sharp |-> sharp]

\* an image that passes every check
Good(id, hash) == Img(id, hash, "pass", "pass", "pass", "pass")

\* items without thumb_url, and whose image cannot be fetched or decoded
NoThumb == [id |-> "n1", thumb_url |-> "", reachable |-> FALSE,
            hash |-> Uniform(ZeroDigit), bg |-> "pass", res |-> "pass",
            light |-> "pass", sharp |-> "pass"]
Unreachable == [id |-> "u1", thumb_url |-> "t", reachable |-> FALSE,
                hash |-> Uniform(<<0, 1, 1, 0>>), bg |-> "pass",
                res |-> "pass", light |-> "pass", sharp |-> "pass"]

SampleImages ==
  {NoThumb, Unreachable,
   Good("g1", Uniform(ZeroDigit)),
   Good("g2", Uniform(<<1, 1, 1, 1>>)),
   Img("b1", Uniform(<<1, 0, 1, 0>>), "fail", "pass", "fail", "fail")}

\* two good images whose fingerprints differ by chosen bits
HashPairs ==
  {<<Good("g1", base), Good("g2", XorHash(base, masks))>> :
     base \in {Uniform(ZeroDigit), Uniform(<<1, 0, 0, 1>>)},
     masks \in [1..HashDigits -> DigitMasks]}

\* one image with every combination of check outcomes
ScoreLists ==
  {<<Img("s1", Uniform(ZeroDigit), bg, res, light, sharp)>> :
     bg \in {"pass", "fail", "raise"}, res \in {"pass", "fail"},
     light \in {"pass", "fail", "raise"}, sharp \in {"pass", "fail", "raise"}}

\* sides of the images whose border is sampled
Sides == {SAMPLE_STEP * k : k \in 1..MaxEdgeSteps} \cup {1, SAMPLE_STEP + 1}

\* an image of the given size with white_count near-white border samples;
\* resolution and lighting pass and sharpness fails, so the background
\* check decides between 4 of 5 and 2 of 5
Bordered(width, height, white_count) ==
  [id |-> "w1", thumb_url |-> "t", reachable |-> TRUE,
   hash |-> Uniform(ZeroDigit), bg |-> "measure", res |-> "pass",
   light |-> "pass", sharp |-> "fail",
   width |-> width, height |-> height, white_count |-> white_count]

BorderLists ==
  UNION {{<<Bordered(size[1], size[2], white_count)>> :
            white_count \in 0..edge_pixel_count(size[1], size[2])} :
         size \in Sides \X Sides}

\* an ImageFilter just built, about to be given items
ImageConf(wb, items) ==
  /\ white_background = wb
  /\ imgItems = items
  /\ seen_hashes = {}
  /\ imgDone = FALSE
  /\ imgFiltered = <<>>
  /\ imgLog = <<>>

ImageInit ==
  \/ \E items \in HashPairs : ImageConf(TRUE, items)
  \/ \E items \in ScoreLists, wb \in BOOLEAN : ImageConf(wb, items)
  \/ \E items \in SeqsUpTo(SampleImages, MaxImages) : ImageConf(TRUE, items)
  \/ \E items \in BorderLists : ImageConf(TRUE, items)

ImageQuiet == ImageConf(TRUE, <<>>)

\* filter_items(items) returned r
FilterDone(r) ==
  /\ imgFiltered' = r.filtered
  /\ seen_hashes' = r.seen
  /\ imgLog' = r.log
  /\ imgDone' = TRUE

\* ImageFilter.filter_items(items)
FilterItems ==
  /\ ~imgDone
  /\ FilterDone(filter_items(imgItems, seen_hashes, white_background))
  /\ UNCHANGED <<white_background, imgItems>>

(***************************************************************************)
(* A run over several keywords: one check of MercariMonitor.start, or      *)
(* MercariResearcher.batch_search                                          *)
(***************************************************************************)
runVars == <<runKind, nKeywords, kw, all_items, fetches, runDone, runOutput>>

\* a fetch that ended in an exception, and one that gave records (for the
\* monitor: what is left of them after filter_items and _filter_ng_words)
FetchFailed == [failed |-> TRUE, records |-> <<>>]
FetchGave(records) == [failed |-> FALSE, records |-> records]

\* records a fetch may give: with a url, and without one
RunRecords ==
  {Product("r1", "Lens", 1500, ItemPath("r1")),
   Product("r2", "Bag", 2000, ItemPath("r2")),
   Product("r3", "Cup", 300, <<>>)}

FetchOutcomes ==
  {FetchFailed} \cup {FetchGave(rs) : rs \in SeqsUpTo(RunRecords, MaxFetched)}

\* the gathered list when a failed fetch throws it away
gather_reset(gathered, fetch) ==
  IF fetch.failed THEN <<>> ELSE gathered \o fetch.records

\* the gathered list after one keyword: `if items: all_items.extend(items)`
\* (fetch_items gives [] on an exception), and `if products:
\* all_products.extend(products)` with the except branch that leaves
\* all_products alone
gather(gathered, fetch) ==
  IF fetch.failed THEN gathered ELSE gathered \o fetch.records

\* search_results[keyword]['status'] of batch_search
search_status(fetch) ==
  IF fetch.failed THEN "error"
  ELSE IF fetch.records # <<>> THEN "success" ELSE "no_results"

\* _remove_duplicates_global(products), seen_urls being the urls kept so far
RECURSIVE remove_duplicates_global(_, _)
remove_duplicates_global(products, seen_urls) ==
  IF products = <<>> THEN <<>>
  ELSE IF Head(products).url # <<>> /\ Head(products).url \notin seen_urls
  THEN <<Head(products)>>
         \o remove_duplicates_global(Tail(products),
                                     seen_urls \cup {Head(products).url})
  ELSE remove_duplicates_global(Tail(products), seen_urls)

\* a run of the given kind over n keywords, before its first fetch
RunConf(kind, n) ==
  /\ runKind = kind
  /\ nKeywords = n
  /\ kw = 1
  /\ all_items = <<>>
  /\ fetches = <<>>
  /\ runDone = FALSE
  /\ runOutput = <<>>

RunInit ==
  \E kind \in {"monitor", "batch_search"}, n \in 1..MaxKeywords :
     RunConf(kind, n)

RunQuiet == RunConf("monitor", 1)

\* one turn of `for keyword in keywords` in MercariMonitor.start
MonitorFetch(fetch) ==
  /\ runKind = "monitor" /\ ~runDone /\ kw <= nKeywords
  /\ all_items' = gather(all_items, fetch)
  /\ fetches' = Append(fetches, [status |-> search_status(fetch),
                                 records |-> fetch.records])
  /\ kw' = kw + 1
  /\ UNCHANGED <<runKind, nKeywords, runDone, runOutput>>

\* after the loop: `if all_items:` _notify, _save_results
MonitorFinish ==
  /\ runKind = "monitor" /\ ~runDone /\ kw > nKeywords
  /\ runOutput' = all_items
  /\ runDone' = TRUE
  /\ UNCHANGED <<runKind, nKeywords, kw, all_items, fetches>>

\* one turn of `for i, keyword in enumerate(keywords, 1)` in batch_search;
\* a failed fetch is search_products raising after its retries
BatchSearchFetch(fetch) ==
  /\ runKind = "batch_search" /\ ~runDone /\ kw <= nKeywords
  /\ all_items' = gather(all_items, fetch)
  /\ fetches' = Append(fetches, [status |-> search_status(fetch),
                                 records |-> fetch.records])
  /\ kw' = kw + 1
  /\ UNCHANGED <<runKind, nKeywords, runDone, runOutput>>

\* after the loop: _remove_duplicates_global, save_products_to_csv,
\* save_products_to_database
BatchSearchFinish ==
  /\ runKind = "batch_search" /\ ~runDone /\ kw > nKeywords
  /\ runOutput' = remove_duplicates_global(all_items, {})
  /\ runDone' = TRUE
  /\ UNCHANGED <<runKind, nKeywords, kw, all_items, fetches>>

(***************************************************************************)
(* MercariMonitor: one NextDataScraper and one ImageFilter, built in       *)
(* __init__, serve every keyword of every check                            *)
(***************************************************************************)
passVars == <<passes, seen_at_pass>>

\* the fingerprint that differs from the all-zero one in its first k digits
NearHash(k) ==
  [i \in 1..HashDigits |-> IF i <= k THEN <<1, 1, 1, 1>> ELSE ZeroDigit]

\* items a fetch may extract: three good images of which the second is close
\* to the first and to the third, and a poor image
PassImages ==
  {Good("g1", Uniform(ZeroDigit)),
   Good("g2", NearHash(DUP_THRESHOLD)),
   Good("g3", Uniform(<<1, 1, 1, 1>>)),
   Img("b1", Uniform(<<1, 0, 1, 0>>), "fail", "pass", "fail", "fail")}

PassBatches == SeqsUpTo(PassImages, MaxPassItems)

\* the monitor before its first pass
PassQuiet ==
  /\ passes = 0
  /\ seen_at_pass = {}

\* `if self.image_filter: items = self.image_filter.filter_items(items)` on
\* the items fetch_items returned (nothing is filtered when it returned [])
PassFilter(items) ==
  /\ imgItems' = items
  /\ seen_at_pass' = seen_hashes
  /\ FilterDone(filter_items(items, seen_hashes, white_background))

\* the part of fetch_items after the extraction gave batch, f being what
\* _filter_new_items returned, and the image filter on `new_items[:max_items]`
PassWith(batch, f, limit) ==
  /\ Filtered(batch, f)
  /\ PassFilter(Take(f.new_items, limit))

\* one turn of `for keyword in keywords` in MercariMonitor.start
MonitorPass(batch, limit) ==
  /\ passes < MaxPasses
  /\ passes' = passes + 1
  /\ clock' = clock + 1
  /\ PassWith(batch, filter_new_items(batch, seen_items), limit)
  /\ UNCHANGED <<page, coreImported, rOp, rResult, rRaised, runs,
                 white_background>>

(***************************************************************************)
(* MercariResearcher.search_products under @retry_on_error()               *)
(***************************************************************************)
searchVars == <<sStep, has_driver, open_sessions, sessions_made, max_pages,
                max_products, page_count, n_products, extractions,
                empty_page, next_failed, final_products>>

\* the configuration and the sessions, which an attempt does not reset
searchKept == <<max_pages, max_products>>

\* RetryConfig(): `max_retries: int = 3`
default_max_retries == 3

NoResult == [returned |-> FALSE, len |-> 0]

\* search_products not running, under the given max_pages and
\* max_products_per_search
SearchConf(pages, products) ==
  /\ sStep = "none"
  /\ has_driver = FALSE
  /\ open_sessions = 0
  /\ sessions_made = 0
  /\ max_pages = pages
  /\ max_products = products
  /\ page_count = 0
  /\ n_products = 0
  /\ extractions = 0
  /\ empty_page = FALSE
  /\ next_failed = FALSE
  /\ final_products = NoResult

SearchInit ==
  \E pages \in 0..MaxPages, products \in 0..MaxProducts :
     SearchConf(pages, products)

SearchQuiet == SearchConf(0, 0)

\* exception types search_products meets: the plain Exception it raises
\* itself is in no table, like ValueError; WebDriverException comes from the
\* driver; KeyboardInterrupt is no Exception
SearchKinds == {"ValueError", "WebDriverException", "KeyboardInterrupt"}

\* the body of search_products is entered: its locals are fresh and
\* MercariRPA(self.config) has no driver yet
EnterSearch ==
  /\ sStep' = "setup"
  /\ has_driver' = FALSE
  /\ page_count' = 0
  /\ n_products' = 0
  /\ extractions' = 0
  /\ empty_page' = FALSE
  /\ next_failed' = FALSE
  /\ UNCHANGED <<open_sessions, sessions_made, max_pages, max_products,
                 final_products>>

\* the wrapper calls search_products for the first time
SearchCall == Call /\ EnterSearch

\* time.sleep returns and the wrapper calls search_products again
SearchRetry == SleepDone /\ EnterSearch

\* rpa.setup_driver() returns; created: webdriver.Chrome(...) gave a driver
\* (setup_driver returns False when a later statement of it raises, with
\* the driver left in rpa.driver)
SetupDriver(created) ==
  /\ pc = "attempting" /\ sStep = "setup"
  /\ sStep' = "ready"
  /\ has_driver' = created
  /\ open_sessions' = open_sessions + (IF created THEN 1 ELSE 0)
  /\ sessions_made' = sessions_made + (IF created THEN 1 ELSE 0)
  /\ UNCHANGED <<max_pages, max_products, page_count, n_products,
                 extractions, empty_page, next_failed, final_products>>
  /\ UNCHANGED <<handlerVars, retryVars>>

\* `while len(all_products) < max_products and page_count < max_pages`
loop_continues(products, pages, most_products, most_pages) ==
  products < most_products /\ pages < most_pages

\* `if len(all_products) < max_products and page_count < max_pages`, the
\* test before _go_to_next_page
wants_next(products, pages, most_products, most_pages) ==
  products < most_products /\ pages < most_pages

\* setup_driver, navigate_to_mercari and perform_search returned True; the
\* while loop is reached
StartPaging ==
  /\ pc = "attempting" /\ sStep = "ready" /\ has_driver
  /\ sStep' = IF loop_continues(n_products, page_count, max_products,
                                max_pages)
              THEN "page" ELSE "return"
  /\ UNCHANGED <<has_driver, open_sessions, sessions_made, max_pages,
                 max_products, page_count, n_products, extractions,
                 empty_page, next_failed, final_products>>
  /\ UNCHANGED <<handlerVars, retryVars>>

\* where the body goes after a page that held products
after_page(products, pages) ==
  IF wants_next(products, pages, max_products, max_pages) THEN "next"
  ELSE IF loop_continues(products, pages, max_products, max_pages)
  THEN "page" ELSE "return"

\* one turn of the while loop up to _go_to_next_page: the page holds found
\* products of which new are not yet in all_products
ExtractPage(found, new) ==
  /\ pc = "attempting" /\ sStep = "page"
  /\ new <= found
  /\ page_count' = page_count + 1
  /\ extractions' = extractions + 1
  /\ empty_page' = (found = 0)
  /\ n_products' = n_products + new
  /\ sStep' = IF found = 0 THEN "return"
              ELSE after_page(n_products + new, page_count + 1)
  /\ UNCHANGED <<has_driver, open_sessions, sessions_made, max_pages,
                 max_products, next_failed, final_products>>
  /\ UNCHANGED <<handlerVars, retryVars>>

\* _go_to_next_page(rpa) returns ok; the while test follows
NextPage(ok) ==
  /\ pc = "attempting" /\ sStep = "next"
  /\ next_failed' = ~ok
  /\ sStep' = IF ~ok THEN "return"
              ELSE IF loop_continues(n_products, page_count, max_products,
                                     max_pages)
              THEN "page" ELSE "return"
  /\ UNCHANGED <<has_driver, open_sessions, sessions_made, max_pages,
                 max_products, page_count, n_products, extractions,
                 empty_page, final_products>>
  /\ UNCHANGED <<handlerVars, retryVars>>

\* a with block that leaves the session to the garbage collector
exit_session_unmanaged(driver_set, sessions) == sessions

\* MercariRPA.__exit__: close() calls driver.quit() when rpa.driver is set
exit_session(driver_set, sessions) ==
  IF driver_set THEN sessions - 1 ELSE sessions

\* the with block is left
LeaveWith ==
  /\ open_sessions' = exit_session(has_driver, open_sessions)
  /\ has_driver' = FALSE
  /\ sStep' = "none"

\* a return of all_products as it is
first_products_uncut(products, most) == products

\* len(all_products[:max_products]), for max_products >= 0
first_products(products, most) == Min(products, most)

\* `final_products = all_products[:max_products]; return final_products`
SearchReturns ==
  /\ sStep = "return"
  /\ OpReturns
  /\ LeaveWith
  /\ final_products' = [returned |-> TRUE, len |-> first_products(n_products, max_products)]
  /\ UNCHANGED <<sessions_made, max_pages, max_products, page_count,
                 n_products, extractions, empty_page, next_failed>>

\* the handler's statistics and latest call after the except clause of
\* search_products: handle_error(e, context) for an Exception, nothing for a
\* KeyboardInterrupt, which the clause does not catch
stats_after_except(k) ==
  IF IsException(k) THEN update_error_stats(error_stats, k) ELSE error_stats

call_after_except(k, throws) ==
  IF IsException(k)
  THEN [op |-> "handle", kind |-> k,
        result |-> handle_error_result(k, WrapperContext, TRUE, throws),
        stats_before |-> error_stats]
  ELSE lastCall

\* an exception of type k is raised inside the with block: __exit__ runs,
\* then the except clause of search_products and its `raise`, then the
\* except clause of the wrapper; throws: the recovery strategy raised
SearchRaises(k, throws) ==
  /\ sStep \in {"setup", "ready", "page", "next"}
  /\ throws => k \in recovery_strategies
  /\ LeaveWith
  /\ OpRaisesAfter(k, FALSE, stats_after_except(k),
                   call_after_except(k, throws))
  /\ UNCHANGED <<sessions_made, max_pages, max_products, page_count,
                 n_products, extractions, empty_page, next_failed, final_products>>

\* the variables of the components other than the handler, the retry
\* wrapper, extract_price and the resolvers
extVars == <<noveltyVars, imageVars, runVars, passVars, searchVars>>

ExtQuiet ==
  NoveltyQuiet /\ ImageQuiet /\ RunQuiet /\ PassQuiet /\ SearchQuiet

(***************************************************************************)
(* Specifications                                                          *)
(***************************************************************************)
vars == <<handlerVars, retryVars, priceVars, resolveVars, extVars>>

\* direct use of the handler object
InitHandler == HandlerInit /\ RetryQuiet /\ PriceQuiet /\ ResolveQuiet /\ ExtQuiet

NextClassify ==
  \E k \in Kinds : ClassifyError(k) /\ UNCHANGED <<retryVars, priceVars, resolveVars, extVars>>

NextHandle ==
  \E k \in Kinds, ctx \in Contexts, driverOk \in BOOLEAN, throws \in BOOLEAN :
     /\ throws => k \in recovery_strategies
     /\ HandleError(k, ctx, driverOk, throws)
     /\ UNCHANGED <<retryVars, priceVars, resolveVars, extVars>>

NextHandler == NextClassify \/ NextHandle

SpecHandler == InitHandler /\ [][NextHandler]_vars

\* one run of a function decorated with retry_on_error
InitRetry == HandlerInit /\ RetryInit /\ PriceQuiet /\ ResolveQuiet /\ ExtQuiet

NextCall == Call /\ UNCHANGED <<priceVars, resolveVars, extVars>>

NextReturns == OpReturns /\ UNCHANGED <<priceVars, resolveVars, extVars>>

NextRaises ==
  \E k \in Kinds, throws \in BOOLEAN :
     OpRaises(k, throws) /\ UNCHANGED <<priceVars, resolveVars, extVars>>

NextSleepDone == SleepDone /\ UNCHANGED <<priceVars, resolveVars, extVars>>

NextRetry == NextCall \/ NextReturns \/ NextRaises \/ NextSleepDone

SpecRetry == InitRetry /\ [][NextRetry]_vars

\* the same run, which the user may interrupt once
NextInterrupt ==
  \E swallowed \in BOOLEAN : Interrupt(swallowed) /\ UNCHANGED <<priceVars, resolveVars, extVars>>

NextCancel == NextRetry \/ NextInterrupt

SpecCancel == InitRetry /\ [][NextCancel]_vars

\* extract_price on the renderings of a price
InitPrice == HandlerInit /\ RetryQuiet /\ PriceInit /\ ResolveQuiet /\ ExtQuiet

NextPrice == ExtractPrice /\ UNCHANGED <<handlerVars, retryVars, resolveVars, extVars>>

SpecPrice == InitPrice /\ [][NextPrice]_vars

\* one resolver operation on one page
InitResolve == HandlerInit /\ RetryQuiet /\ PriceQuiet /\ ResolveInit /\ ExtQuiet

\* max_items: less than, and more than, what a page holds
Limits == {1, MaxItems + 1}

NextFetchItems ==
  \E limit \in Limits, fetchOk \in BOOLEAN :
     FetchItems(limit, fetchOk) /\ UNCHANGED <<handlerVars, retryVars, priceVars, extVars>>

NextSearchProducts ==
  \E limit \in Limits, fetchOk \in BOOLEAN :
     SearchProducts(limit, fetchOk)
       /\ UNCHANGED <<handlerVars, retryVars, priceVars, extVars>>

NextExtractProducts ==
  \E sourceOk \in BOOLEAN :
     ExtractProductsFromPage(sourceOk)
       /\ UNCHANGED <<handlerVars, retryVars, priceVars, extVars>>

NextResolve == NextFetchItems \/ NextSearchProducts \/ NextExtractProducts

SpecResolve == InitResolve /\ [][NextResolve]_vars

\* calls of _filter_new_items and restarts on one database
coreVars == <<handlerVars, retryVars, priceVars>>

InitNovelty ==
  HandlerInit /\ RetryQuiet /\ PriceQuiet /\ NoveltyInit /\ ImageQuiet
    /\ RunQuiet /\ PassQuiet /\ SearchQuiet

NextFilterNewItems ==
  \E batch \in Batches :
     FilterNewItems(batch)
       /\ UNCHANGED <<coreVars, imageVars, runVars, passVars, searchVars>>

NextRestart ==
  Restart /\ UNCHANGED <<coreVars, imageVars, runVars, passVars, searchVars>>

NextNovelty == NextFilterNewItems \/ NextRestart

SpecNovelty == InitNovelty /\ [][NextNovelty]_vars

\* one call of ImageFilter.filter_items
InitImage ==
  HandlerInit /\ RetryQuiet /\ PriceQuiet /\ ResolveQuiet /\ NoveltyQuiet
    /\ ImageInit /\ RunQuiet /\ PassQuiet /\ SearchQuiet

NextImage ==
  FilterItems
    /\ UNCHANGED <<coreVars, resolveVars, noveltyVars, runVars, passVars,
                   searchVars>>

SpecImage == InitImage /\ [][NextImage]_vars

\* one run over the keywords
InitRun ==
  HandlerInit /\ RetryQuiet /\ PriceQuiet /\ ResolveQuiet /\ NoveltyQuiet
    /\ ImageQuiet /\ RunInit /\ PassQuiet /\ SearchQuiet

restVars ==
  <<coreVars, resolveVars, noveltyVars, imageVars, passVars, searchVars>>

NextMonitorFetch ==
  \E fetch \in FetchOutcomes : MonitorFetch(fetch) /\ UNCHANGED restVars

NextMonitorFinish == MonitorFinish /\ UNCHANGED restVars

NextBatchSearchFetch ==
  \E fetch \in FetchOutcomes : BatchSearchFetch(fetch) /\ UNCHANGED restVars

NextBatchSearchFinish == BatchSearchFinish /\ UNCHANGED restVars

NextRun ==
  \/ NextMonitorFetch \/ NextMonitorFinish
  \/ NextBatchSearchFetch \/ NextBatchSearchFinish

SpecRun == InitRun /\ [][NextRun]_vars

\* the passes of one monitor over its scraper and its image filter
InitMonitor ==
  /\ HandlerInit /\ RetryQuiet /\ PriceQuiet /\ NoveltyInit /\ RunQuiet
  /\ PassQuiet /\ SearchQuiet
  /\ \E wb \in BOOLEAN : ImageConf(wb, <<>>)

PassLimits == {1, MaxPassItems + 1}

NextMonitorPass ==
  \E batch \in PassBatches, limit \in PassLimits :
     MonitorPass(batch, limit) /\ UNCHANGED <<coreVars, runVars, searchVars>>

SpecMonitor == InitMonitor /\ [][NextMonitorPass]_vars

\* one call of search_products through its retry wrapper
InitSearch ==
  /\ HandlerInit /\ RetryConf(default_max_retries, FALSE) /\ PriceQuiet
  /\ ResolveQuiet /\ NoveltyQuiet /\ ImageQuiet /\ RunQuiet /\ PassQuiet
  /\ SearchInit

outsideSearch ==
  <<priceVars, resolveVars, noveltyVars, imageVars, runVars, passVars>>

NextSearchCall == SearchCall /\ UNCHANGED outsideSearch

NextSearchRetry == SearchRetry /\ UNCHANGED outsideSearch

NextSetupDriver ==
  \E created \in BOOLEAN : SetupDriver(created) /\ UNCHANGED outsideSearch

NextStartPaging == StartPaging /\ UNCHANGED outsideSearch

NextExtractPage ==
  \E found \in 0..MaxFound, new \in 0..MaxFound :
     ExtractPage(found, new) /\ UNCHANGED outsideSearch

NextNextPage == \E ok \in BOOLEAN : NextPage(ok) /\ UNCHANGED outsideSearch

NextSearchReturns == SearchReturns /\ UNCHANGED outsideSearch

NextSearchRaises ==
  \E k \in SearchKinds, throws \in BOOLEAN :
     SearchRaises(k, throws) /\ UNCHANGED outsideSearch

NextSearch ==
  \/ NextSearchCall \/ NextSearchRetry \/ NextSetupDriver \/ NextStartPaging
  \/ NextExtractPage \/ NextNextPage \/ NextSearchReturns
  \/ NextSearchRaises

SpecSearch == InitSearch /\ [][NextSearch]_vars

\* search_products runs in one thread: a statement that is reached is
\* executed, and the calls of the loop (scroll, extract, click) return or
\* raise
SearchFairness ==
  /\ WF_vars(NextExtractPage)
  /\ WF_vars(NextNextPage)

SpecSearchFair == SpecSearch /\ SearchFairness

(***************************************************************************)
(* Claims                                                                  *)
(***************************************************************************)
LowKinds == {k \in Kinds : classify_error(k) = "low"}
CriticalKinds == {k \in Kinds : classify_error(k) = "critical"}

\* the run is over and every invocation failed with a Low-severity error
\* for which a retry was recommended
AllLowFailed ==
  /\ pc = "raised"
  /\ raisedKinds # {}
  /\ raisedKinds \subseteq LowKinds
  /\ ~strategyThrew

\* C1 (as stated): an operation that fails with a Low-severity error on
\* every invocation is invoked exactly max_retries times in total (3 times
\* for max_retries = 3) before the executor gives up.
C1_Original == AllLowFailed => calls = max_retries

\* C1 (amended): an operation that fails with a Low-severity error on every
\* invocation is invoked exactly max_retries + 1 times in total (4 times for
\* max_retries = 3), with or without an error handler, before the executor
\* gives up.
C1_AttemptCount == AllLowFailed => calls = max_retries + 1

C1_Witness == AllLowFailed /\ max_retries = 3 /\ calls = 4

\* C2: when the run ends and no invocation returned normally, the wrapper
\* has raised exactly the exception of the most recent invocation; it has
\* not returned a value, nor raised an earlier or a foreign exception.
C2_LastErrorPropagated ==
  (pc \in {"raised", "returned"} /\ outcome.kind # "value")
     => (pc = "raised" /\ lastRaised # NoExc /\ outcome = lastRaised
         /\ outcome.seq = calls)

C2_Witness ==
  /\ pc = "raised" /\ calls >= 3 /\ hasHandler
  /\ Cardinality(raisedKinds) >= 2 /\ outcome = lastRaised

\* C3 (as stated): after an invocation failed with a Critical-severity
\* error the wrapper neither sleeps nor invokes the operation again, with
\* or without an error handler: it has raised that error.
C3_CriticalNeverRetried ==
  (lastRaised.kind \in CriticalKinds
     /\ lastRaised.seq = calls)
     => (pc = "raised" /\ outcome = lastRaised)

\* C4 (as stated): once the run is cancelled, no new attempt starts and no
\* backoff sleep begins.
C4_CancelStopsRetry ==
  [][cancelled => (calls' = calls /\ sleeps' = sleeps)]_vars

Mapped(k) == k \in MappedKinds

\* C5: classify_error returns a severity for every exception type, mapped
\* or not, returns medium for every type the table does not name, and
\* leaves error_stats as it was.
C5_ClassifyTotalPure ==
  lastCall.op = "classify"
     => /\ lastCall.result \in Severities
        /\ (~Mapped(lastCall.kind) => lastCall.result = "medium")
        /\ error_stats = lastCall.stats_before

C5_Witness ==
  /\ lastCall.op = "classify" /\ ~Mapped(lastCall.kind)
  /\ lastCall.result = "medium" /\ TotalErrors(error_stats) > 0

\* the severities a classify_error call may return for a type
Classified(k, sevs) ==
  (lastCall.op = "classify" /\ lastCall.kind = k) => lastCall.result \in sevs

TransientKinds ==
  {"NoSuchElementException", "StaleElementReferenceException",
   "ElementNotInteractableException", "ElementClickInterceptedException"}

\* C6 (as stated): Timeout is Low; ElementMissing, StaleReference,
\* NotInteractable, ActionBlocked are Low or Medium; AutomationFault and
\* NetworkFailure are High; ResourceExhaustion and Fatal are Critical.
C6_Original ==
  /\ Classified("TimeoutException", {"low"})
  /\ \A k \in TransientKinds : Classified(k, {"low", "medium"})
  /\ Classified("WebDriverException", {"high"})
  /\ Classified("ConnectionError", {"high"})
  /\ Classified("MemoryError", {"critical"})
  /\ Classified("SystemError", {"critical"})
  /\ Classified("KeyboardInterrupt", {"critical"})

\* C6 (amended): Timeout is Low; ElementMissing, StaleReference,
\* NotInteractable, ActionBlocked are Low or Medium; AutomationFault
\* (WebDriverException) is Medium; NetworkFailure and ResourceExhaustion
\* (MemoryError) are High; Fatal (SystemError, KeyboardInterrupt) is Critical.
C6_Taxonomy ==
  /\ Classified("TimeoutException", {"low"})
  /\ \A k \in TransientKinds : Classified(k, {"low", "medium"})
  /\ Classified("WebDriverException", {"medium"})
  /\ Classified("ConnectionError", {"high"})
  /\ Classified("MemoryError", {"high"})
  /\ Classified("SystemError", {"critical"})
  /\ Classified("KeyboardInterrupt", {"critical"})

C6_Witness ==
  /\ lastCall.op = "classify" /\ lastCall.kind = "MemoryError"
  /\ lastCall.result = "high"

\* a record with the three required fields as the specification wants them
ValidRecord(r) ==
  /\ ~Falsy(r.id)
  /\ ~Falsy(r.title)
  /\ r.price >= MIN_PRICE /\ r.price <= MAX_PRICE

\* C7: every record emitted on the structured-payload path (fetch_items) and
\* on the markup path (extract_products_from_page) has a non-empty id, a
\* non-empty title and a price in [10, 1000000]; candidates failing this are
\* dropped, so a payload of one valid and one titleless entry yields a single
\* record.
C7_EmittedRecordsValid ==
  rOp.name \in {"fetch_items", "extract_products_from_page"}
     => /\ \A i \in 1..Len(rResult) : ValidRecord(rResult[i])
        /\ page.script = Payload(<<I_valid, I_notitle>>, <<>>, <<>>)
             => Len(rResult) <= 1

\* the payload of the page matches none of the three known shapes
NoKnownShape(script) ==
  /\ script.kind = "json"
  /\ script.shape1 = <<>> /\ script.shape2 = <<>> /\ script.shape3 = <<>>

\* C8: when the payload matches no known shape and the markup has hyperlinks
\* to the item path, the resolver falls through to markup mode and emits one
\* record per such hyperlink (up to max_items), each with its url.
C8_FallsThroughToMarkup ==
  (/\ rOp.name = "fetch_items" /\ rOp.ok
   /\ NoKnownShape(page.script))
     => LET hrefs == Take(product_links(page.links), rOp.limit)
        IN  /\ Len(rResult) = Len(hrefs)
            /\ \A i \in 1..Len(hrefs) : rResult[i].url = hrefs[i].href

\* nothing on the page matches what the operation that ran looks for
NothingMatches ==
  \/ /\ rOp.name = "fetch_items"
     /\ page.script.kind # "json" \/ NoKnownShape(page.script)
  \/ /\ rOp.name = "search_products"
     /\ first_match(page.cells) = 0
     /\ product_links(page.links) = <<>>
  \/ /\ rOp.name = "extract_products_from_page"
     /\ first_match(page.rcells) = 0
     /\ first_match(page.scells) = 0

\* C9: on a page where no structured shape and no locator candidate matches,
\* fetch_items, search_products and extract_products_from_page return an
\* empty list and raise nothing.
C9_NoMatchIsEmptyResult ==
  NothingMatches => (rResult = <<>> /\ ~rRaised)

C9_Witness ==
  /\ rOp.name = "search_products" /\ rOp.ok /\ rOp.limit > 0
  /\ ~coreImported
  /\ first_match(page.cells) = 0
  /\ page.links = <<L_help>>
  /\ rResult = <<>> /\ ~rRaised

\* C11: over any sequence of _filter_new_items calls on one database each
\* id is admitted at most once; a call admits the first presentation of an id
\* that has no row and writes its row, rejects every presentation of an id
\* that has a row (also the second one within a batch, and after a restart),
\* and leaves the rows written before unchanged.
C11_AdmittedOnce ==
  /\ \A id \in NoveltyIds : admissions[id] <= 1
  /\ lastFilter.called =>
       /\ \A id \in NoveltyIds :
            Occurrences(lastFilter.new_items, id) =
              (IF id \notin DOMAIN lastFilter.before
                    /\ Occurrences(lastFilter.batch, id) > 0
               THEN 1 ELSE 0)
       /\ \A id \in DOMAIN lastFilter.before :
            id \in DOMAIN first_seen /\ first_seen[id] = lastFilter.before[id]
       /\ \A i \in 1..Len(lastFilter.new_items) :
            lastFilter.new_items[i].id \in DOMAIN first_seen
       /\ seen_items = DOMAIN first_seen

C11_Witness ==
  /\ lastFilter.called /\ lastFilter.run > 1
  /\ lastFilter.batch = <<Item("m1"), Item("m2"), Item("m2")>>
       \/ lastFilter.batch = <<Item("m1"), Item("m2")>>
  /\ "m1" \in DOMAIN lastFilter.before
  /\ "m2" \notin DOMAIN lastFilter.before
  /\ lastFilter.new_items = <<Item("m2")>>
  /\ first_seen["m1"] < first_seen["m2"]
  /\ admissions["m1"] = 1 /\ admissions["m2"] = 1

\* number of bits in which two fingerprints differ
RECURSIVE SumOver(_, _)
SumOver(f, S) ==
  IF S = {} THEN 0
  ELSE LET x == CHOOSE y \in S : TRUE IN f[x] + SumOver(f, S \ {x})

BitDistance(h1, h2) ==
  SumOver([i \in 1..HashDigits |->
             Cardinality({b \in 1..4 : h1[i][b] # h2[i][b]})],
          1..HashDigits)

\* C12: an image whose fingerprint is within 4 bits of a fingerprint in the
\* index is rejected as a near-duplicate, and one at 5 bits or more from
\* every indexed fingerprint is admitted to scoring.
C12_BitThreshold ==
  (/\ imgDone /\ Len(imgItems) = 2
   /\ imgItems[2].reachable /\ ~Falsy(imgItems[2].thumb_url)
   /\ imgLog[1].seen_after = {imgItems[1].hash})
     => /\ BitDistance(imgItems[1].hash, imgItems[2].hash) <= DUP_THRESHOLD
             => imgLog[2].stage = "duplicate"
        /\ BitDistance(imgItems[1].hash, imgItems[2].hash) > DUP_THRESHOLD
             => imgLog[2].stage # "duplicate"

\* the points an item earns and can earn when the listed checks count
Points(result, points) == IF result = "pass" THEN points ELSE 0

Achieved(item, background) ==
  (IF background THEN Points(background_outcome(item), BACKGROUND_POINTS)
   ELSE 0)
    + Points(item.res, RESOLUTION_POINTS)
    + Points(item.light, LIGHTING_POINTS)
    + Points(item.sharp, SHARPNESS_POINTS)

Possible(background) ==
  (IF background THEN BACKGROUND_POINTS ELSE 0)
    + RESOLUTION_POINTS + LIGHTING_POINTS + SHARPNESS_POINTS

\* the scoring of every scored item is as if the background check counted
\* exactly when background(i) says so
ScoredAs(background) ==
  imgDone =>
    \A i \in 1..Len(imgLog) :
       imgLog[i].stage = "scored" =>
         /\ imgLog[i].max_score = Possible(background)
         /\ imgLog[i].score = Achieved(imgItems[i], background)
         /\ imgLog[i].passed <=>
              (RATIO_DEN * imgLog[i].score >= RATIO_NUM * imgLog[i].max_score)

\* C13 as stated: each of the four checks (background 2, resolution 1,
\* lighting 1, sharpness 1) adds its points to possible whatever its outcome
\* and to achieved when it passes; passed holds exactly when
\* achieved / possible >= 0.6.
C13_Original == ScoredAs(TRUE)

\* C13: the background check adds its 2 points to possible only when
\* professional_features.white_background is set; the other three checks
\* always add theirs; each adds to achieved when it passes; passed holds
\* exactly when achieved / possible >= 0.6, so 3 of 5 passes and 2 of 5
\* does not.
C13_QualityScore ==
  /\ ScoredAs(white_background)
  /\ imgDone =>
       \A i \in 1..Len(imgLog) :
          (imgLog[i].stage = "scored" /\ imgLog[i].max_score = 5) =>
             /\ imgLog[i].score = 3 => imgLog[i].passed
             /\ imgLog[i].score = 2 => ~imgLog[i].passed

C13_Witness ==
  /\ imgDone /\ white_background /\ Len(imgLog) = 1
  /\ imgLog[1].stage = "scored"
  /\ imgLog[1].score = 3 /\ imgLog[1].max_score = 5 /\ imgLog[1].passed
  /\ imgItems[1].bg = "fail"
  /\ imgFiltered = imgItems

\* the index and the evaluation of the other items when one image is missing
Unusable(item) == Falsy(item.thumb_url) \/ ~item.reachable

SeenBefore(i) == IF i = 1 THEN {} ELSE imgLog[i - 1].seen_after

\* C14: filter_items evaluates every item of its list; an item whose image
\* is missing or cannot be downloaded or decoded is not passed, is left out
\* of the result and leaves seen_hashes as it was.
C14_BadImageContained ==
  imgDone =>
    /\ Len(imgLog) = Len(imgItems)
    /\ \A i \in 1..Len(imgItems) :
         Unusable(imgItems[i]) =>
           /\ ~imgLog[i].passed
           /\ imgLog[i].seen_after = SeenBefore(i)
    /\ Len(imgFiltered) = Cardinality({i \in 1..Len(imgLog) : imgLog[i].passed})
    /\ \A j \in 1..Len(imgFiltered) : ~Unusable(imgFiltered[j])
    /\ seen_hashes = (IF imgLog = <<>> THEN {}
                      ELSE imgLog[Len(imgLog)].seen_after)

C14_Witness ==
  /\ imgDone /\ Len(imgItems) = 3
  /\ imgItems[1] = Unreachable /\ imgItems[2] = NoThumb
  /\ imgItems[3] = Good("g1", Uniform(ZeroDigit))
  /\ imgFiltered = <<imgItems[3]>>
  /\ seen_hashes = {Uniform(ZeroDigit)}

AdvisedToStop ==
  /\ lastCall' # lastCall
  /\ lastCall'.op = "handle"
  /\ ~lastCall'.result.retry_recommended

\* C16: when the recovery outcome of a failed attempt has retry_recommended
\* false, the wrapper stops at once: the failure is followed by no sleep and
\* no further call of the operation, even with attempts left, and the
\* exception of that attempt is raised.
C16_StopsWhenRetryNotRecommended ==
  [][/\ AdvisedToStop =>
          /\ pc' = "raised"
          /\ sleeps' = sleeps
          /\ calls' = calls
          /\ outcome' = Exc(lastCall'.kind, calls)
     /\ pc = "raised" => (calls' = calls /\ sleeps' = sleeps)]_vars

C16_Witness ==
  /\ pc = "raised" /\ hasHandler /\ attempt + 1 < max_retries
  /\ lastCall.op = "handle" /\ ~lastCall.result.retry_recommended
  /\ ~strategyThrew
  /\ calls = 2 /\ sleeps = 1
  /\ outcome = Exc(lastCall.kind, 2)

\* C17: a recovery strategy that raises is contained: handle_error returns
\* with recovery attempted, not successful and no retry recommended; the
\* wrapper then makes no further attempt and raises the exception of the
\* operation.
C17_StrategyFailureContained ==
  strategyThrew =>
    /\ lastCall.op = "handle"
    /\ lastCall.result.recovery_attempted
    /\ ~lastCall.result.recovery_successful
    /\ ~lastCall.result.retry_recommended
    /\ pc = "raised"
    /\ calls = attempt + 1
    /\ sleeps = attempt
    /\ outcome = lastRaised
    /\ outcome = Exc(lastCall.kind, calls)

C17_Witness ==
  /\ strategyThrew /\ pc = "raised"
  /\ lastCall.op = "handle" /\ lastCall.kind = "TimeoutException"
  /\ attempt = 1 /\ max_retries = 3
  /\ outcome = Exc("TimeoutException", 2)

\* handle_error has returned for an error of the given type
HandledAs(kind) == lastCall.op = "handle" /\ lastCall.kind = kind

\* C18: for a WebDriverException (AutomationFault) or a ConnectionError
\* (NetworkFailure) the dict handle_error returns carries retry_recommended
\* false together with a restart recommendation that is true.
C18_RestartRecommended ==
  (HandledAs("WebDriverException") \/ HandledAs("ConnectionError")) =>
    /\ ~lastCall.result.retry_recommended
    /\ Get(lastCall.result, "restart_driver_recommended", FALSE)

\* the entry list of the highest-priority shape that has entries
ChosenShape(script) ==
  IF script.shape1 # <<>> THEN script.shape1
  ELSE IF script.shape2 # <<>> THEN script.shape2
  ELSE script.shape3

\* the ids of the entries of a list, as _format_item reads them
EntryIds(entries) ==
  {Or3(Get(entries[i], "id", None), Get(entries[i], "itemId", None),
       Get(entries[i], "productId", "")) : i \in 1..Len(entries)}

\* C19: the records fetch_items returns for a payload all come from one
\* shape, the highest-priority shape whose entry list is non-empty; the
\* result never holds a prefix of a higher-priority shape followed by
\* entries of a lower-priority one, also when an entry of the
\* higher-priority shape cannot be normalized.
C19_SingleShape ==
  (rOp.name = "fetch_items" /\ rOp.ok /\ page.script.kind = "json")
     => \A i \in 1..Len(rResult) :
           rResult[i].id \in EntryIds(ChosenShape(page.script))

\* an entry that _format_item normalizes into a valid record
ValidEntry(item) ==
  /\ ~format_item(item).raised
  /\ ValidRecord(format_item(item).value)

\* the records of the valid entries of a list, in the order of the list
ValidRecords(entries) ==
  LET valid == SelectSeq(entries, ValidEntry)
  IN  [i \in 1..Len(valid) |-> format_item(valid[i]).value]

\* the ids recorded in seen_items before the operation
SeenAtStart == {id \in DOMAIN first_seen : first_seen[id] = 0}

\* C20: an entry that fails validation or normalization never aborts its
\* batch: the records fetch_items emits are exactly the valid entries of the
\* chosen shape in their original order (those not seen before, up to
\* max_items), whatever the number and position of the entries with a
\* missing price, an empty image list or a missing title.
C20_InvalidNeverAborts ==
  (rOp.name = "fetch_items" /\ rOp.ok /\ page.script.kind = "json")
     => rResult =
          Take(filter_new_items(ValidRecords(ChosenShape(page.script)),
                                SeenAtStart).new_items,
               rOp.limit)

\* the ids of the records a call returned
ReturnedIds == {rResult[i].id : i \in 1..Len(rResult)}

\* C27: fetch_items marks as seen only what it surfaces: every id a call
\* inserts into seen_items is the id of a record of the list the same call
\* returns, for every max_items and every batch of extracted records.
C27_SeenOnlyIfReturned ==
  rOp.name = "fetch_items" => (seen_items \ SeenAtStart) \subseteq ReturnedIds

\* candidate i is the first of the list that matches an element
FirstMatching(cells, i) ==
  /\ cells[i] # <<>>
  /\ \A j \in 1..(i - 1) : cells[j] = <<>>

\* no candidate of the list matches
NoneMatching(cells) == \A i \in DOMAIN cells : cells[i] = <<>>

\* the elements are those of the first matching candidate of the list, or
\* the given fallback when no candidate matches
UsesFirstCandidate(used, cells, fallback) ==
  /\ \A i \in DOMAIN cells : FirstMatching(cells, i) => used = cells[i]
  /\ NoneMatching(cells) => used = fallback

\* C21: the container candidates are tried in list order and the elements
\* used for the page are exactly those matched by the first candidate that
\* matches any; elements of different candidates are never combined and the
\* hyperlink fallback is used only when no candidate matches.
C21_FirstMatchingCandidate ==
  /\ (rOp.name = "search_products" /\ rOp.ok) =>
        LET used == extract_product_elements(page.cells, page.links)
        IN  /\ UsesFirstCandidate(used, page.cells, product_links(page.links))
            /\ rResult = parse_all(Take(used, rOp.limit), coreImported)
  /\ (rOp.name = "extract_products_from_page" /\ rOp.ok) =>
        LET used == find_product_elements(page.rcells, page.scells)
        IN  /\ UsesFirstCandidate(
                 used, page.rcells,
                 IF NoneMatching(page.scells) THEN <<>>
                 ELSE page.scells[first_match(page.scells)])
            /\ rResult = extract_all(used)

C21_Witness ==
  /\ rOp.name = "search_products" /\ rOp.ok /\ rOp.limit > MaxElems
  /\ FirstMatching(page.cells, 2)
  /\ page.cells[NumSelectors] # <<>>
  /\ page.cells[NumSelectors] # page.cells[2]
  /\ product_links(page.links) # <<>>
  /\ rResult # <<>>
  /\ rResult = parse_all(page.cells[2], coreImported)

\* image i of the latest pass is close to an image judged before it in
\* the same pass whose fingerprint went into the index
CloseToEarlierOfPass(i) ==
  \E j \in 1..(i - 1) :
     /\ imgLog[j].stage \in {"scored", "error"}
     /\ within_threshold(hamming_distance(imgItems[i].hash, imgItems[j].hash))

\* C22: the fingerprint index is scoped to one pass (fetch, extract, filter):
\* it is empty when a pass begins, so an image is rejected as a
\* near-duplicate only because of an image judged earlier in the same pass,
\* never because of one from an earlier keyword or an earlier check.
C22_IndexScopedToPass ==
  passes > 0 =>
    /\ seen_at_pass = {}
    /\ \A i \in 1..Len(imgLog) :
          imgLog[i].stage = "duplicate" => CloseToEarlierOfPass(i)

\* one of the checks run on the item cannot analyse the image
Errored(item) ==
  \E k \in 1..Len(checks_of(item, white_background)) :
     checks_of(item, white_background)[k].outcome = "raise"

\* C23: a check that cannot analyse the image counts as a failed check and
\* nothing more: its points stay in possible, it adds nothing to achieved and
\* the other checks are still scored, so an image whose sharpness check
\* errors while background, resolution and lighting pass scores 4 of 5 and is
\* passed.
C23_ErroredCheckCountsAsFailed ==
  imgDone =>
    \A i \in 1..Len(imgLog) :
       (imgLog[i].stage \in {"scored", "error"} /\ Errored(imgItems[i])) =>
          /\ imgLog[i].max_score = Possible(white_background)
          /\ imgLog[i].score = Achieved(imgItems[i], white_background)
          /\ imgLog[i].passed <=>
               (RATIO_DEN * imgLog[i].score >= RATIO_NUM * imgLog[i].max_score)

\* item i of the list is an image whose border was sampled and scored
BorderScored(i) ==
  imgLog[i].stage = "scored" /\ imgItems[i].bg = "measure"

\* C24: with n border pixels sampled of which w are near-white, the
\* background check passes exactly when w/n >= 80%, that is 5*w >= 4*n; an
\* image with exactly 80% near-white border samples passes.
C24_WhitenessBoundary ==
  (imgDone /\ white_background) =>
    \A i \in 1..Len(imgLog) :
       BorderScored(i) =>
          LET n == edge_pixel_count(imgItems[i].width, imgItems[i].height)
              w == imgItems[i].white_count
          IN  (imgLog[i].score >= BACKGROUND_POINTS) <=> (5 * w >= 4 * n)

\* the elements of seq at the positions in keep, from position i on, in the
\* order of seq
RECURSIVE AtPositions(_, _, _)
AtPositions(seq, keep, i) ==
  IF i > Len(seq) THEN <<>>
  ELSE (IF i \in keep THEN <<seq[i]>> ELSE <<>>)
         \o AtPositions(seq, keep, i + 1)

\* positions of the batch whose id has no row before the call and occurs at
\* no earlier position
FirstNewPositions(batch, before) ==
  {i \in 1..Len(batch) :
     /\ batch[i].id \notin DOMAIN before
     /\ \A j \in 1..(i - 1) : batch[j].id # batch[i].id}

\* seen_hashes when item i of the latest pass was judged
SeenInPass(i) == IF i = 1 THEN seen_at_pass ELSE imgLog[i - 1].seen_after

\* C25: page order is preserved through filtering: the output of
\* _filter_new_items and the output of filter_items are each the records of
\* their input kept at their positions, in input order, none reordered,
\* duplicated or invented; records are judged in input order, the verdict on
\* a record depending only on the records before it.
C25_OrderPreserved ==
  passes > 0 =>
    /\ lastFilter.new_items =
         AtPositions(lastFilter.batch,
                     FirstNewPositions(lastFilter.batch, lastFilter.before), 1)
    /\ imgItems = Take(lastFilter.new_items, Len(imgItems))
    /\ Len(imgLog) = Len(imgItems)
    /\ imgFiltered =
         AtPositions(imgItems,
                     {i \in 1..Len(imgLog) : imgLog[i].passed}, 1)
    /\ \A i \in 1..Len(imgItems) :
          /\ imgLog[i].passed =
               is_professional_item(imgItems[i], SeenInPass(i),
                                    white_background).passed
          /\ imgLog[i].seen_after =
               is_professional_item(imgItems[i], SeenInPass(i),
                                    white_background).seen

C25_Witness ==
  /\ passes = 2 /\ seen_at_pass # {}
  /\ Len(lastFilter.batch) = 2 /\ Len(lastFilter.new_items) = 2
  /\ lastFilter.before # <<>>
  /\ imgItems = lastFilter.batch
  /\ imgItems[1] # imgItems[2]
  /\ imgFiltered = imgItems

\* the fingerprint is farther than the threshold from every one in the set
FarFromAll(hash_val, hashes) ==
  \A h \in hashes : hamming_distance(hash_val, h) > DUP_THRESHOLD

\* C28: after any sequence of duplicate checks any two distinct fingerprints
\* in seen_hashes are at distance greater than 4 under _hamming_distance; a
\* fingerprint is added exactly when its check answers 'not a duplicate', a
\* rejected one adds nothing, and no fingerprint is ever removed.
C28_IndexInvariant ==
  /\ \A h1 \in seen_hashes : FarFromAll(h1, seen_hashes \ {h1})
  /\ seen_at_pass \subseteq seen_hashes
  /\ seen_hashes = SeenInPass(Len(imgLog) + 1)
  /\ \A i \in 1..Len(imgLog) :
        /\ SeenInPass(i) \subseteq imgLog[i].seen_after
        /\ imgLog[i].stage = "duplicate" =>
              /\ imgLog[i].seen_after = SeenInPass(i)
              /\ ~FarFromAll(imgItems[i].hash, SeenInPass(i))
        /\ imgLog[i].stage \in {"scored", "error"} =>
              /\ imgLog[i].seen_after = SeenInPass(i) \cup {imgItems[i].hash}
              /\ FarFromAll(imgItems[i].hash, SeenInPass(i))
        /\ imgLog[i].stage \in {"no_url", "no_image"} =>
              imgLog[i].seen_after = SeenInPass(i)

C28_Witness ==
  /\ passes = 2
  /\ Cardinality(seen_at_pass) = 2
  /\ Len(imgLog) = 2
  /\ imgLog[1].stage = "duplicate" /\ imgLog[2].stage = "scored"
  /\ Cardinality(seen_hashes) = 3

\* the wrapper is not inside a call of search_products
OutsideAttempt == pc \in {"idle", "sleeping", "returned", "raised"}

\* C26: every browser session search_products opens has been quit by the
\* time the attempt returns or raises, whatever the path: at most one
\* session is open at any time, it is the one of the running attempt, and
\* none is open between attempts or after the wrapper has returned or
\* raised
C26_SessionsReleased ==
  /\ open_sessions = (IF has_driver THEN 1 ELSE 0)
  /\ has_driver => pc = "attempting"
  /\ OutsideAttempt => open_sessions = 0

\* C26, witness: the wrapper has raised after several attempts that each
\* opened a session, and none is open
C26_Witness ==
  /\ pc = "raised"
  /\ calls > 1
  /\ sessions_made = calls
  /\ open_sessions = 0

\* the invocations and the sleeps of the wrapper so far: at most
\* max_retries + 1 invocations, at least one once the wrapper is entered,
\* one sleep after each invocation but the latest, and one after the latest
\* only while the wrapper waits to invoke again
InvocationsAndSleeps ==
  /\ calls <= max_retries + 1
  /\ pc = "idle" => (calls = 0 /\ sleeps = 0)
  /\ pc # "idle" => calls >= 1
  /\ pc \in {"attempting", "returned", "raised"} => sleeps = calls - 1
  /\ pc = "sleeping" => (sleeps = calls /\ calls <= max_retries)
  /\ pc = "returned" => outcome = Value(calls)

\* a step that invokes the function again comes out of a sleep, after an
\* invocation that raised
InvokedAgainOnlyAfterFailure ==
  calls' # calls =>
     /\ calls' = calls + 1
     /\ calls > 0 => /\ pc = "sleeping"
                     /\ lastRaised = Exc(lastRaised.kind, calls)
     /\ sleeps' = sleeps

\* C29: under RetryConfig(max_retries = n) the wrapped function is invoked
\* at least once and at most n + 1 times; once an invocation returns, its
\* value is the wrapper's and nothing is invoked again; exactly one sleep
\* lies between two consecutive invocations and none follows the last.
C29_InvocationsBounded ==
  []InvocationsAndSleeps /\ [][InvokedAgainOnlyAfterFailure]_vars

\* C29, witness: the last permitted invocation of several has returned, after
\* one sleep before each invocation but the first
C29_Witness ==
  /\ pc = "returned"
  /\ calls = max_retries + 1
  /\ calls > 2
  /\ sleeps = calls - 1
  /\ outcome = Value(calls)

\* the page loop of search_products is running
InPageLoop == sStep \in {"page", "next"}

\* what holds of the page loop in every state of an attempt
PagingBounded ==
  /\ extractions = page_count
  /\ extractions <= max_pages
  /\ empty_page => ~InPageLoop
  /\ next_failed => ~InPageLoop
  /\ final_products.returned => final_products.len <= max_products

\* C30: the page loop of search_products extracts at most max_pages pages,
\* extracts no page after one that held no product or after a next-page
\* step that failed, returns at most max_products records, and once entered
\* is left
C30_PaginationBounded == []PagingBounded /\ (InPageLoop ~> ~InPageLoop)

\* C30, witness: search_products has returned after extracting max_pages
\* pages, more than one, with more products than max_products gathered
C30_Witness ==
  /\ final_products.returned
  /\ extractions = max_pages
  /\ extractions > 1
  /\ n_products > max_products
  /\ final_products.len = max_products

InRange(p) == MIN_PRICE <= p /\ p <= MAX_PRICE

\* C10: for every price p in [10, 1000000] and every supported rendering,
\* extract_price(render(p)) = p; for every p outside the range extract_price
\* of its rendering returns no value.
C10_PriceRoundTrip ==
  priceOut.called
     => priceOut.value = (IF InRange(priceIn) THEN priceIn ELSE NoPrice)

C10_Witness ==
  /\ priceOut.called /\ priceIn = MAX_PRICE /\ priceStyle = "suffix_sep"
  /\ Len(priceText) = 10 /\ priceOut.value = MAX_PRICE

====
